---- MODULE Spec2Model ----
(***************************************************************************)
(* A model of crypto_tools/tokentax_csv_consolidate.py: the record model,  *)
(* the pattern matcher, the rule resolver, the action library and the      *)
(* main loop that groups the rows by transaction hash and rewrites each    *)
(* group with the first alteration that matches it.                        *)
(*                                                                         *)
(* Python values are modelled as follows.  A str is a TLA+ string, except  *)
(* the combined ExchangeId of a row, which is a sequence of one-character  *)
(* strings so that split("-") can be computed.  None is the string None.   *)
(* A Decimal is a record [c, e] standing for c * 10^e (the coefficient and *)
(* the exponent Python keeps).  A raised Exception is a result record      *)
(* whose err field names the raise statement; err = NoError is a return.   *)
(***************************************************************************)
EXTENDS Integers, Sequences, FiniteSets, TLC

VARIABLES
    main_alterations_mapping,               \* main: the loaded AlterationsMapping
    main_transaction_list,                  \* main: the rows read from the CSV
    separated_transaction_list_of_lists,    \* main: the dict hash -> rows, in insertion order
    input_transaction_hash_count_dict,      \* main: group size -> groups seen
    no_match_transaction_hash_count_dict,   \* main: group size -> groups without alteration
    output_transaction_hash_count_dict,     \* main: group size -> groups written
    output_transaction_list,                \* main: the output accumulator
    pc,                                     \* main: position in main()
    group_index,                            \* main: groups of the dict already processed
    row_index,                              \* main: rows already put into the dict
    history,                                \* what each loop iteration did (history variable)
    args,                                   \* the arguments of a function called on its own
    called,                                 \* whether that function has returned
    result                                  \* what it returned or raised

vars == <<main_alterations_mapping, main_transaction_list, separated_transaction_list_of_lists,
          input_transaction_hash_count_dict, no_match_transaction_hash_count_dict,
          output_transaction_hash_count_dict, output_transaction_list, pc, group_index,
          row_index, history, args, called, result>>

main_vars == <<main_alterations_mapping, main_transaction_list, separated_transaction_list_of_lists,
               input_transaction_hash_count_dict, no_match_transaction_hash_count_dict,
               output_transaction_hash_count_dict, output_transaction_list, pc, group_index,
               row_index, history>>

call_vars == <<args, called, result>>

None == "None"

NoError == "NoError"

(***************************************************************************)
(* Sequence helpers.                                                       *)
(***************************************************************************)
SeqSet(s) == {s[i] : i \in 1..Len(s)}

\* All sequences over S of length lo..hi.
SeqsOf(S, lo, hi) == UNION {[1..n -> S] : n \in lo..hi}

RECURSIVE SumNat(_, _)
SumNat(f, n) == IF n = 0 THEN 0 ELSE f[n] + SumNat(f, n - 1)

(***************************************************************************)
(* Decimal.                                                                *)
(***************************************************************************)
\* The context precision (significant digits of a rounded result).  Python's
\* default context has 28; the model keeps the same rounding rule with fewer
\* digits so that coefficients stay inside TLC's integers.
Prec == 3

Dec(c, e) == [c |-> c, e |-> e]

DecZero == Dec(0, 0)

RECURSIVE Pow10(_)
Pow10(k) == IF k <= 0 THEN 1 ELSE 10 * Pow10(k - 1)

\* len(str(c)) for c >= 0.
RECURSIVE NumDigits(_)
NumDigits(c) == IF c < 10 THEN 1 ELSE 1 + NumDigits(c \div 10)

DecIsZero(d) == d.c = 0

\* Numeric comparison, the way Decimal.__eq__ compares (4.50 == 4.5).
DecMinExp(a, b) == IF a.e < b.e THEN a.e ELSE b.e

DecScaled(d, e) == d.c * Pow10(d.e - e)

DecEq(a, b) == DecScaled(a, DecMinExp(a, b)) = DecScaled(b, DecMinExp(a, b))

\* Decimal._fix: a coefficient of more than Prec digits is rounded to Prec
\* digits, half to even (the default context's rounding).
DecFix(c, e) ==
    LET d == NumDigits(c) - Prec
    IN  IF c = 0 \/ d <= 0 THEN Dec(c, e)
        ELSE LET q == c \div Pow10(d)
                 r == c % Pow10(d)
                 half == 5 * Pow10(d - 1)
                 rounded == IF r > half \/ (r = half /\ q % 2 = 1) THEN q + 1 ELSE q
             IN  IF NumDigits(rounded) > Prec
                 THEN Dec(rounded \div 10, e + d + 1)
                 ELSE Dec(rounded, e + d)

\* An exact quotient drops trailing zeros until it has the ideal exponent.
RECURSIVE DecStrip(_, _, _)
DecStrip(coeff, exp, ideal_exp) ==
    IF exp < ideal_exp /\ coeff % 10 = 0
    THEN DecStrip(coeff \div 10, exp + 1, ideal_exp)
    ELSE Dec(coeff, exp)

\* Decimal.__truediv__ for a >= 0 and b > 0: the quotient to Prec + 1
\* digits, marked inexact when there is a remainder, then rounded by _fix.
DecDiv(a, b) ==
    IF a.c = 0 THEN DecFix(0, a.e - b.e)
    ELSE LET shift == NumDigits(b.c) - NumDigits(a.c) + Prec + 1
             exp == a.e - b.e - shift
             num == IF shift >= 0 THEN a.c * Pow10(shift) ELSE a.c
             den == IF shift >= 0 THEN b.c ELSE b.c * Pow10(0 - shift)
             coeff == num \div den
             remainder == num % den
         IN  IF remainder # 0
             THEN DecFix(IF coeff % 5 = 0 THEN coeff + 1 ELSE coeff, exp)
             ELSE LET stripped == DecStrip(coeff, exp, a.e - b.e)
                  IN  DecFix(stripped.c, stripped.e)

\* Decimal / int: the int is converted to a Decimal of exponent 0.
DecDivInt(a, n) == DecDiv(a, Dec(n, 0))

\* Signed decimals: the coefficient carries the sign.  _fix rounds the
\* magnitude and keeps the sign.
DecFixSigned(c, e) ==
    IF c >= 0 THEN DecFix(c, e)
    ELSE LET fixed == DecFix(0 - c, e) IN Dec(0 - fixed.c, fixed.e)

\* Decimal.__add__: the exact sum at the smaller exponent, rounded by _fix.
DecAdd(a, b) ==
    LET exp == DecMinExp(a, b)
    IN  DecFixSigned(DecScaled(a, exp) + DecScaled(b, exp), exp)

\* Decimal.__sub__: self + (-other).
DecSub(a, b) == DecAdd(a, Dec(0 - b.c, b.e))

\* Decimal.__abs__, which rounds as the context says.
DecAbs(a) == DecFixSigned(IF a.c < 0 THEN 0 - a.c ELSE a.c, a.e)

(***************************************************************************)
(* Record model.                                                           *)
(***************************************************************************)
TokenTaxTransactionType ==
    {"Trade", "Income", "Airdrop", "Borrow", "Deposit", "Fork", "Gift", "Lost",
     "Migration", "Mining", "Repay", "Spend", "Staking", "Stolen", "Withdrawal"}

ExchangeID(transaction_hash, transaction_suffix) ==
    [transaction_hash |-> transaction_hash, transaction_suffix |-> transaction_suffix]

\* str.split("-") of a string given as a sequence of characters: the list of
\* the segments between the separators (one more than there are separators),
\* each segment a string.
RECURSIVE SplitDash(_, _, _)
SplitDash(s, i, cur) ==
    IF i > Len(s) THEN <<cur>>
    ELSE IF s[i] = "-" THEN <<cur>> \o SplitDash(s, i + 1, "")
    ELSE SplitDash(s, i + 1, cur \o s[i])

\* The variant that takes the whole string as the hash.
RECURSIVE whole_string(_, _)
whole_string(s, i) == IF i > Len(s) THEN "" ELSE s[i] \o whole_string(s, i + 1)

create_from_whole_string(combined_string) ==
    ExchangeID(whole_string(combined_string, 1), <<>>)

create_from_combined_string(combined_string) ==
    ExchangeID(SplitDash(combined_string, 1, "")[1], Tail(SplitDash(combined_string, 1, "")))

TokenTaxTransaction(transaction_type, buy_amount, buy_currency, sell_amount, sell_currency, fee_amount, fee_currency, exchange, exchange_id, group, import_name, comment, date, usd_equivalent, updated_at) ==
    [transaction_type |-> transaction_type,
     buy_amount |-> buy_amount, buy_currency |-> buy_currency,
     sell_amount |-> sell_amount, sell_currency |-> sell_currency,
     fee_amount |-> fee_amount, fee_currency |-> fee_currency,
     exchange |-> exchange, exchange_id |-> exchange_id,
     group |-> group, import_name |-> import_name, comment |-> comment,
     date |-> date, usd_equivalent |-> usd_equivalent, updated_at |-> updated_at]

\* A datetime: whole seconds and microseconds.
DateTime(second, microsecond) == [second |-> second, microsecond |-> microsecond]

AlterationTransactionPattern(transaction_type, buy_currency, sell_currency, exchange) ==
    [transaction_type |-> transaction_type, buy_currency |-> buy_currency,
     sell_currency |-> sell_currency, exchange |-> exchange]

Alteration(tx_hash, tx_patterns, actions) ==
    [tx_hash |-> tx_hash, tx_patterns |-> tx_patterns, actions |-> actions]

(***************************************************************************)
(* Pattern matcher.                                                        *)
(***************************************************************************)
\* The variant that accepts a pattern with no field in common with the record.
compare_accepting_no_common_elements(tokentax_transaction, alteration_transaction_pattern) ==
    LET p == alteration_transaction_pattern
        t == tokentax_transaction
    IN  IF p.transaction_type # None /\ t.transaction_type # p.transaction_type THEN FALSE
        ELSE IF p.buy_currency # None /\ t.buy_currency # p.buy_currency THEN FALSE
        ELSE IF p.sell_currency # None /\ t.sell_currency # p.sell_currency THEN FALSE
        ELSE TRUE

compare_tokentax_transaction_to_alteration_tx_pattern(tokentax_transaction, alteration_transaction_pattern) ==
    LET p == alteration_transaction_pattern
        t == tokentax_transaction
        type_common == IF p.transaction_type # None THEN 1 ELSE 0
        buy_common == IF p.buy_currency # None THEN 1 ELSE 0
        sell_common == IF p.sell_currency # None THEN 1 ELSE 0
        \* a pattern exchange that differs is not counted, and does not return
        exchange_common == IF p.exchange # None /\ t.exchange = p.exchange THEN 1 ELSE 0
        common_elements == type_common + buy_common + sell_common + exchange_common
    IN  IF p.transaction_type # None /\ t.transaction_type # p.transaction_type THEN FALSE
        ELSE IF p.buy_currency # None /\ t.buy_currency # p.buy_currency THEN FALSE
        ELSE IF p.sell_currency # None /\ t.sell_currency # p.sell_currency THEN FALSE
        ELSE common_elements # 0

(***************************************************************************)
(* Rule resolver.                                                          *)
(***************************************************************************)
\* The position of the first element of tx_patterns the transaction matches
\* (the for loop of remove_transaction_from_tx_pattern_list), 0 if none.
RECURSIVE first_matching_pattern(_, _, _)
first_matching_pattern(transaction, tx_patterns, i) ==
    IF i > Len(tx_patterns) THEN 0
    ELSE IF compare_tokentax_transaction_to_alteration_tx_pattern(transaction, tx_patterns[i])
         THEN i
         ELSE first_matching_pattern(transaction, tx_patterns, i + 1)

\* list.remove(x): the list without its first element equal to x.
list_remove(list, x) ==
    LET k == CHOOSE i \in 1..Len(list) :
                 list[i] = x /\ \A j \in 1..(i - 1) : list[j] # x
    IN  [i \in 1..(Len(list) - 1) |-> IF i < k THEN list[i] ELSE list[i + 1]]

\* The variant that keeps the matched pattern in the list.
remove_transaction_keeping_pattern(transaction, tx_patterns) ==
    [found |-> first_matching_pattern(transaction, tx_patterns, 1) # 0,
     tx_patterns |-> tx_patterns]

\* Returns the bool of the code as found, and the list as the call leaves it.
remove_transaction_from_tx_pattern_list(transaction, tx_patterns) ==
    LET i == first_matching_pattern(transaction, tx_patterns, 1)
    IN  IF i = 0
        THEN [found |-> FALSE, tx_patterns |-> tx_patterns]
        ELSE [found |-> TRUE, tx_patterns |-> list_remove(tx_patterns, tx_patterns[i])]

\* The for loop of all_transactions_in_tx_pattern_list from position i on.
RECURSIVE all_transactions_from(_, _, _)
all_transactions_from(transaction_list, tx_patterns_copy, i) ==
    IF i > Len(transaction_list) THEN TRUE
    ELSE LET r == remove_transaction_from_tx_pattern_list(transaction_list[i],
                                                          tx_patterns_copy)
         IN  IF ~r.found THEN FALSE
             ELSE all_transactions_from(transaction_list, r.tx_patterns, i + 1)

all_transactions_in_tx_pattern_list(transaction_list, tx_patterns) ==
    all_transactions_from(transaction_list, tx_patterns, 1)

\* The variant that does not skip an alteration pinned to another hash.
RECURSIVE match_from_ignoring_tx_hash(_, _, _, _)
match_from_ignoring_tx_hash(alterations_mapping, transaction_hash, transaction_list, i) ==
    IF i > Len(alterations_mapping.alterations) THEN 0
    ELSE LET alteration == alterations_mapping.alterations[i]
         IN  IF /\ Len(alteration.tx_patterns) = Len(transaction_list)
                /\ all_transactions_in_tx_pattern_list(transaction_list,
                                                       alteration.tx_patterns)
             THEN i
             ELSE match_from_ignoring_tx_hash(alterations_mapping, transaction_hash,
                                              transaction_list, i + 1)

\* The variant that does not compare the number of patterns with the group's size.
RECURSIVE match_from_ignoring_length(_, _, _, _)
match_from_ignoring_length(alterations_mapping, transaction_hash, transaction_list, i) ==
    IF i > Len(alterations_mapping.alterations) THEN 0
    ELSE LET alteration == alterations_mapping.alterations[i]
         IN  IF alteration.tx_hash # None /\ transaction_hash # alteration.tx_hash
             THEN match_from_ignoring_length(alterations_mapping, transaction_hash,
                                             transaction_list, i + 1)
             ELSE IF all_transactions_in_tx_pattern_list(transaction_list,
                                                         alteration.tx_patterns)
             THEN i
             ELSE match_from_ignoring_length(alterations_mapping, transaction_hash,
                                             transaction_list, i + 1)

\* The for loop of match_transaction_list_to_alteration from alteration i on.
\* The alteration returned is named by its position in the mapping; 0 is None.
RECURSIVE match_from(_, _, _, _)
match_from(alterations_mapping, transaction_hash, transaction_list, i) ==
    IF i > Len(alterations_mapping.alterations) THEN 0
    ELSE LET alteration == alterations_mapping.alterations[i]
         IN  IF alteration.tx_hash # None /\ transaction_hash # alteration.tx_hash
             THEN match_from(alterations_mapping, transaction_hash, transaction_list, i + 1)
             ELSE IF /\ Len(alteration.tx_patterns) = Len(transaction_list)
                     /\ all_transactions_in_tx_pattern_list(transaction_list,
                                                            alteration.tx_patterns)
             THEN i
             ELSE match_from(alterations_mapping, transaction_hash, transaction_list, i + 1)

match_transaction_list_to_alteration(alterations_mapping, transaction_hash, transaction_list) ==
    match_from(alterations_mapping, transaction_hash, transaction_list, 1)

AlterationsMapping(alterations) == [alterations |-> alterations]

\* The patterns a greedy pass over the list itself would leave in it: the
\* pass stops at the first row that finds no pattern.
RECURSIVE patterns_left_from(_, _, _)
patterns_left_from(transaction_list, tx_patterns, i) ==
    IF i > Len(transaction_list) THEN tx_patterns
    ELSE LET r == remove_transaction_from_tx_pattern_list(transaction_list[i], tx_patterns)
         IN  IF ~r.found THEN tx_patterns
             ELSE patterns_left_from(transaction_list, r.tx_patterns, i + 1)

RECURSIVE alterations_consumed_from(_, _, _, _)
alterations_consumed_from(alterations, transaction_hash, transaction_list, i) ==
    IF i > Len(alterations) THEN alterations
    ELSE LET alteration == alterations[i]
             consumed == [alterations EXCEPT
                             ![i].tx_patterns = patterns_left_from(transaction_list, @, 1)]
         IN  IF alteration.tx_hash # None /\ transaction_hash # alteration.tx_hash
             THEN alterations_consumed_from(alterations, transaction_hash,
                                            transaction_list, i + 1)
             ELSE IF Len(alteration.tx_patterns) # Len(transaction_list)
             THEN alterations_consumed_from(alterations, transaction_hash,
                                            transaction_list, i + 1)
             ELSE IF all_transactions_in_tx_pattern_list(transaction_list,
                                                         alteration.tx_patterns)
             THEN consumed
             ELSE alterations_consumed_from(consumed, transaction_hash,
                                            transaction_list, i + 1)

\* The variant in which the greedy pass removes the patterns from the
\* alteration's own list.
mapping_after_match_on_the_patterns(alterations_mapping, transaction_hash, transaction_list) ==
    AlterationsMapping(alterations_consumed_from(alterations_mapping.alterations,
                                                 transaction_hash, transaction_list, 1))

\* The mapping after match_transaction_list_to_alteration returned: the
\* greedy pass removes patterns from copy.deepcopy(tx_patterns) (line 733),
\* so no alteration's list is touched.
mapping_after_match(alterations_mapping, transaction_hash, transaction_list) ==
    alterations_mapping

(***************************************************************************)
(* Action library: the helpers of the conversions.                         *)
(* A function that can raise returns a record with the field err; the      *)
(* names of the errors are those of the raise statements.                  *)
(***************************************************************************)
Raised(err) == [err |-> err, value |-> <<>>]

Returned(value) == [err |-> NoError, value |-> value]

\* fee_amount is a Decimal, never "": a row supplies fees when its currency is set.
has_fees_list(transaction_list) ==
    SelectSeq(transaction_list, LAMBDA transaction : transaction.fee_currency # "")

\* The variant that never finds a fee.
find_fees_finding_none(transaction_list) ==
    [err |-> NoError, fee_amount |-> DecZero, fee_currency |-> ""]

find_fees_from_transaction_list(transaction_list) ==
    LET has_fees == has_fees_list(transaction_list)
    IN  IF Len(has_fees) = 0
        THEN [err |-> NoError, fee_amount |-> DecZero, fee_currency |-> ""]
        ELSE IF Len(has_fees) = 1
        THEN [err |-> NoError, fee_amount |-> has_fees[1].fee_amount,
              fee_currency |-> has_fees[1].fee_currency]
        ELSE [err |-> "MultipleFees", fee_amount |-> DecZero, fee_currency |-> ""]

has_usd_equivalent_list(transaction_list) ==
    SelectSeq(transaction_list, LAMBDA transaction : ~DecIsZero(transaction.usd_equivalent))

find_usd_equivalent_from_transaction_list(transaction_list) ==
    LET has_usd == has_usd_equivalent_list(transaction_list)
    IN  IF Len(has_usd) = 0
        THEN [err |-> NoError, usd_equivalent |-> DecZero]
        ELSE IF Len(has_usd) = 1
        THEN [err |-> NoError, usd_equivalent |-> has_usd[1].usd_equivalent]
        ELSE [err |-> "MultipleUsdEquivalent", usd_equivalent |-> DecZero]

\* all(value == values[0] for value in values)
AllSame(values) ==
    \A i \in DOMAIN values : values[i] = values[1]

\* Returns the error raised, NoError if none.
ensure_common_elements_are_identical_in_transaction_list(transaction_list) ==
    LET each == DOMAIN transaction_list
    IN  IF ~AllSame([i \in each |-> transaction_list[i].exchange])
        THEN "MultipleExchanges"
        ELSE IF ~AllSame([i \in each |-> transaction_list[i].exchange_id.transaction_hash])
        THEN "MultipleExchangeIds"
        ELSE IF ~AllSame([i \in each |-> transaction_list[i].group])
        THEN "MultipleGroups"
        ELSE IF ~AllSame([i \in each |-> transaction_list[i].import_name])
        THEN "MultipleImportNames"
        ELSE IF ~AllSame([i \in each |-> transaction_list[i].comment])
        THEN "MultipleComments"
        ELSE IF ~AllSame([i \in each |-> transaction_list[i].date.second])
        THEN "MultipleDates"
        ELSE IF ~AllSame([i \in each |-> transaction_list[i].updated_at.second])
        THEN "MultipleUpdatedAt"
        ELSE NoError

is_buy_only(transaction) == transaction.buy_currency # "" /\ transaction.sell_currency = ""

is_sell_only(transaction) == transaction.buy_currency = "" /\ transaction.sell_currency # ""

\* The variant that leaves out a row with both legs or neither instead of raising.
separate_skipping_other_rows(transaction_list) ==
    [err |-> NoError,
     buy_only_list |-> SelectSeq(transaction_list, is_buy_only),
     sell_only_list |-> SelectSeq(transaction_list, is_sell_only)]

separate_buy_from_sell_transactions(transaction_list) ==
    IF \E i \in 1..Len(transaction_list) :
           ~is_buy_only(transaction_list[i]) /\ ~is_sell_only(transaction_list[i])
    THEN [err |-> "BothBuyAndSell", buy_only_list |-> <<>>, sell_only_list |-> <<>>]
    ELSE [err |-> NoError,
          buy_only_list |-> SelectSeq(transaction_list, is_buy_only),
          sell_only_list |-> SelectSeq(transaction_list, is_sell_only)]

(***************************************************************************)
(* convert_to_trades.                                                      *)
(***************************************************************************)
\* The variant that gives every trade the whole amount.
split_amount_not_dividing(amount, count) == amount

\* original_amount / list_length
split_amount(amount, count) == DecDivInt(amount, count)

\* The Trade built in the loop over the sell-only rows.
trade_of_split_buy(buy_transaction, sell_transaction, split_buy_amount, split_fee_amount, fee_currency, split_usd_equivalent) ==
    TokenTaxTransaction("Trade", split_buy_amount, buy_transaction.buy_currency,
                        sell_transaction.sell_amount, sell_transaction.sell_currency,
                        split_fee_amount, fee_currency,
                        buy_transaction.exchange, buy_transaction.exchange_id,
                        buy_transaction.group, buy_transaction.import_name,
                        buy_transaction.comment, buy_transaction.date,
                        split_usd_equivalent, buy_transaction.updated_at)

\* The Trade built in the loop over the buy-only rows.
trade_of_split_sell(buy_transaction, sell_transaction, split_sell_amount, split_fee_amount, fee_currency) ==
    TokenTaxTransaction("Trade", buy_transaction.buy_amount, buy_transaction.buy_currency,
                        split_sell_amount, sell_transaction.sell_currency,
                        split_fee_amount, fee_currency,
                        sell_transaction.exchange, sell_transaction.exchange_id,
                        sell_transaction.group, sell_transaction.import_name,
                        sell_transaction.comment, sell_transaction.date,
                        buy_transaction.usd_equivalent, sell_transaction.updated_at)

\* The branches of convert_to_trades on the lengths of the two lists.
convert_separated_to_trades(transaction_list, buy_only_list, sell_only_list, fee_amount, fee_currency) ==
    LET buy_only_list_length == Len(buy_only_list)
        sell_only_list_length == Len(sell_only_list)
        usd == find_usd_equivalent_from_transaction_list(transaction_list)
    IN  IF buy_only_list_length = 1 /\ sell_only_list_length = 1
        THEN IF usd.err # NoError THEN Raised(usd.err)
             ELSE Returned(<<trade_of_split_buy(buy_only_list[1], sell_only_list[1],
                                                buy_only_list[1].buy_amount, fee_amount,
                                                fee_currency, usd.usd_equivalent)>>)
        ELSE IF buy_only_list_length = 1 /\ sell_only_list_length > 1
        THEN IF usd.err # NoError THEN Raised(usd.err)
             ELSE Returned(
                 [k \in 1..sell_only_list_length |->
                     trade_of_split_buy(
                         buy_only_list[1], sell_only_list[k],
                         split_amount(buy_only_list[1].buy_amount, sell_only_list_length),
                         split_amount(fee_amount, sell_only_list_length),
                         fee_currency,
                         split_amount(usd.usd_equivalent, sell_only_list_length))])
        ELSE IF buy_only_list_length > 1 /\ sell_only_list_length = 1
        THEN Returned(
                 [k \in 1..buy_only_list_length |->
                     trade_of_split_sell(
                         buy_only_list[k], sell_only_list[1],
                         split_amount(sell_only_list[1].sell_amount, buy_only_list_length),
                         split_amount(fee_amount, buy_only_list_length),
                         fee_currency)])
        ELSE Raised("BuyOrSellCountUnsupported")

convert_to_trades(transaction_list) ==
    LET fees == find_fees_from_transaction_list(transaction_list)
        common == ensure_common_elements_are_identical_in_transaction_list(transaction_list)
        separated == separate_buy_from_sell_transactions(transaction_list)
    IN  IF fees.err # NoError THEN Raised(fees.err)
        ELSE IF common # NoError THEN Raised(common)
        ELSE IF separated.err # NoError THEN Raised(separated.err)
        ELSE convert_separated_to_trades(transaction_list, separated.buy_only_list,
                                         separated.sell_only_list, fees.fee_amount,
                                         fees.fee_currency)

(***************************************************************************)
(* The other actions, and the dispatch on the action's name.               *)
(***************************************************************************)
\* The position of the first row that is not a Deposit, 0 if every row is one.
RECURSIVE first_not_deposit(_, _)
first_not_deposit(transaction_list, i) ==
    IF i > Len(transaction_list) THEN 0
    ELSE IF transaction_list[i].transaction_type # "Deposit" THEN i
    ELSE first_not_deposit(transaction_list, i + 1)

\* The variant that relabels whatever the types are.
convert_to_staking_of_any_type(transaction_list) ==
    Returned([i \in 1..Len(transaction_list) |->
                 [transaction_list[i] EXCEPT !.transaction_type = "Staking"]])

convert_to_staking(transaction_list) ==
    IF first_not_deposit(transaction_list, 1) # 0 THEN Raised("NotDeposit")
    ELSE Returned([i \in 1..Len(transaction_list) |->
                      [transaction_list[i] EXCEPT !.transaction_type = "Staking"]])

keep_transactions_by_type(transaction_list, keep_transaction_type_list) ==
    SelectSeq(transaction_list,
              LAMBDA transaction : transaction.transaction_type \in SeqSet(keep_transaction_type_list))

\* TokenTaxTransactionType(keep) raises a ValueError for a string that names no type.
keep_only_types(action, transaction_list) ==
    IF \E i \in 1..Len(action.keeps) : action.keeps[i] \notin TokenTaxTransactionType
    THEN Raised("NotATransactionType")
    ELSE Returned(keep_transactions_by_type(transaction_list, action.keeps))

rename_token(action, transaction_list) ==
    Returned([i \in 1..Len(transaction_list) |->
                 [transaction_list[i] EXCEPT
                     !.buy_currency = IF @ = action.token_name THEN action.rename_to ELSE @,
                     !.sell_currency = IF @ = action.token_name THEN action.rename_to ELSE @]])

remove_containing(action, transaction_list) ==
    Returned(SelectSeq(transaction_list,
                       LAMBDA transaction :
                           /\ transaction.buy_currency \notin SeqSet(action.removes)
                           /\ transaction.sell_currency \notin SeqSet(action.removes)))

\* The loop over mergable_transaction_list from row i on: the net value so
\* far, or the error of a row with both amounts.
RECURSIVE net_merged_value_from(_, _, _)
net_merged_value_from(mergable_transaction_list, i, net_merged_value) ==
    IF i > Len(mergable_transaction_list)
    THEN [err |-> NoError, net_merged_value |-> net_merged_value]
    ELSE LET mergable_transaction == mergable_transaction_list[i]
         IN  IF /\ ~DecIsZero(mergable_transaction.buy_amount)
                /\ ~DecIsZero(mergable_transaction.sell_amount)
             THEN [err |-> "CannotMergeBuyAndSell", net_merged_value |-> net_merged_value]
             ELSE IF ~DecIsZero(mergable_transaction.buy_amount)
             THEN net_merged_value_from(
                      mergable_transaction_list, i + 1,
                      DecAdd(net_merged_value, mergable_transaction.buy_amount))
             ELSE IF ~DecIsZero(mergable_transaction.sell_amount)
             THEN net_merged_value_from(
                      mergable_transaction_list, i + 1,
                      DecSub(net_merged_value, mergable_transaction.sell_amount))
             ELSE net_merged_value_from(mergable_transaction_list, i + 1, net_merged_value)

\* The variant that emits a record for a net value of zero too.
merged_transaction_list_for_any_net(action, modified_transaction_list, first, net_merged_value, fee_amount, fee_currency, usd_equivalent) ==
    Returned(Append(modified_transaction_list,
        TokenTaxTransaction("Deposit", net_merged_value, action.merge_currency,
                            DecZero, "", fee_amount, fee_currency, first.exchange,
                            first.exchange_id, first.group, first.import_name,
                            first.comment, first.date, usd_equivalent, first.updated_at)))

\* The record appended for the net value, after the rows that were not merged.
merged_transaction_list(action, modified_transaction_list, first, net_merged_value, fee_amount, fee_currency, usd_equivalent) ==
    IF net_merged_value.c > 0
    THEN Returned(Append(modified_transaction_list,
             TokenTaxTransaction("Deposit", net_merged_value, action.merge_currency,
                                 DecZero, "", fee_amount, fee_currency, first.exchange,
                                 first.exchange_id, first.group, first.import_name,
                                 first.comment, first.date, usd_equivalent, first.updated_at)))
    ELSE IF net_merged_value.c < 0
    THEN Returned(Append(modified_transaction_list,
             TokenTaxTransaction("Withdrawal", DecZero, "", DecAbs(net_merged_value),
                                 action.merge_currency, fee_amount, fee_currency,
                                 first.exchange, first.exchange_id, first.group,
                                 first.import_name, first.comment, first.date,
                                 usd_equivalent, first.updated_at)))
    ELSE Raised("MergeCancelledOut")

touches_merge_currency(action, transaction) ==
    \/ transaction.buy_currency = action.merge_currency
    \/ transaction.sell_currency = action.merge_currency

merge_same_currency(action, transaction_list) ==
    LET mergable_transaction_list ==
            SelectSeq(transaction_list, LAMBDA t : touches_merge_currency(action, t))
        modified_transaction_list ==
            SelectSeq(transaction_list, LAMBDA t : ~touches_merge_currency(action, t))
        fees == find_fees_from_transaction_list(mergable_transaction_list)
        usd == find_usd_equivalent_from_transaction_list(mergable_transaction_list)
        common == ensure_common_elements_are_identical_in_transaction_list(mergable_transaction_list)
        net == net_merged_value_from(mergable_transaction_list, 1, DecZero)
    IN  IF Len(mergable_transaction_list) = 0 THEN Raised("NoMergeableTransactions")
        ELSE IF fees.err # NoError THEN Raised(fees.err)
        ELSE IF usd.err # NoError THEN Raised(usd.err)
        ELSE IF common # NoError THEN Raised(common)
        ELSE IF net.err # NoError THEN Raised(net.err)
        ELSE merged_transaction_list(action, modified_transaction_list,
                                     mergable_transaction_list[1], net.net_merged_value,
                                     fees.fee_amount, fees.fee_currency, usd.usd_equivalent)

\* The row with the other leg filled in from the unstaked one, or the row itself.
stake_converted(transaction, unstaked_token, staked_token, transaction_type) ==
    IF transaction.buy_currency = unstaked_token
    THEN [transaction EXCEPT !.transaction_type = transaction_type,
                             !.sell_amount = transaction.buy_amount,
                             !.sell_currency = staked_token]
    ELSE IF transaction.sell_currency = unstaked_token
    THEN [transaction EXCEPT !.transaction_type = transaction_type,
                             !.buy_amount = transaction.sell_amount,
                             !.buy_currency = staked_token]
    ELSE transaction

convert_to_single_stake_trades(action, transaction_list) ==
    Returned([i \in 1..Len(transaction_list) |->
                 stake_converted(transaction_list[i], action.unstaked_token,
                                 action.staked_token, "Trade")])

convert_to_stake_migrations(transaction_list, unstaked_token, staked_token) ==
    [i \in 1..Len(transaction_list) |->
        stake_converted(transaction_list[i], unstaked_token, staked_token, "Migration")]

contains_token(transaction, contains_token_list) ==
    \/ transaction.buy_currency \in SeqSet(contains_token_list)
    \/ transaction.sell_currency \in SeqSet(contains_token_list)

separate_transactions_by_containing(transaction_list, contains_token_list) ==
    [transactions_containing_list |->
         SelectSeq(transaction_list, LAMBDA t : contains_token(t, contains_token_list)),
     transactions_without_list |->
         SelectSeq(transaction_list, LAMBDA t : ~contains_token(t, contains_token_list))]

\* Optional[Sequence[str]]: no value for None, the one value otherwise.
NoRewards == <<>>

Rewards(contains_token_list) == <<contains_token_list>>

\* The rewards rows relabelled Staking.
rewards_as_staking(rewards_list) ==
    [i \in 1..Len(rewards_list) |-> [rewards_list[i] EXCEPT !.transaction_type = "Staking"]]

convert_to_stake_migration(action, transaction_list) ==
    IF action.rewards = NoRewards
    THEN Returned(convert_to_stake_migrations(transaction_list, action.unstaked_token,
                                              action.staked_token))
    ELSE LET separated == separate_transactions_by_containing(transaction_list, action.rewards[1])
         IN  Returned(rewards_as_staking(separated.transactions_containing_list)
                      \o convert_to_stake_migrations(separated.transactions_without_list,
                                                     action.unstaked_token,
                                                     action.staked_token))

is_trade(transaction) == transaction.transaction_type = "Trade"

\* The Trade rows relabelled Migration.
trades_as_migrations(trade_list) ==
    [i \in 1..Len(trade_list) |-> [trade_list[i] EXCEPT !.transaction_type = "Migration"]]

\* The variant that also passes the rows that are not Trades through when
\* they are not one buy and one sell.
converted_keeping_other_rows(transaction_list, buy_only_list, sell_only_list, trade_list, fee_amount, fee_currency, usd_equivalent) ==
    Returned(buy_only_list \o sell_only_list \o trades_as_migrations(trade_list))

\* The variant that raises whenever the rows that are not Trades are not one
\* buy and one sell, a single side included.
converted_raising_on_one_side(transaction_list, buy_only_list, sell_only_list, trade_list, fee_amount, fee_currency, usd_equivalent) ==
    IF Len(buy_only_list) = 1 /\ Len(sell_only_list) = 1
    THEN Returned(
             <<TokenTaxTransaction(
                   "Migration", buy_only_list[1].buy_amount, buy_only_list[1].buy_currency,
                   sell_only_list[1].sell_amount, sell_only_list[1].sell_currency,
                   fee_amount, fee_currency, buy_only_list[1].exchange,
                   buy_only_list[1].exchange_id, buy_only_list[1].group,
                   buy_only_list[1].import_name, buy_only_list[1].comment,
                   buy_only_list[1].date, usd_equivalent, buy_only_list[1].updated_at)>>
             \o trades_as_migrations(trade_list))
    ELSE IF Len(buy_only_list) # 0 \/ Len(sell_only_list) # 0
    THEN Raised("CannotMergeToMigration")
    ELSE Returned(trades_as_migrations(trade_list))

converted_transaction_list(transaction_list, buy_only_list, sell_only_list, trade_list, fee_amount, fee_currency, usd_equivalent) ==
    IF Len(buy_only_list) = 1 /\ Len(sell_only_list) = 1
    THEN LET buy_transaction == buy_only_list[1]
             sell_transaction == sell_only_list[1]
         IN  Returned(
                 <<TokenTaxTransaction(
                       "Migration", buy_transaction.buy_amount, buy_transaction.buy_currency,
                       sell_transaction.sell_amount, sell_transaction.sell_currency,
                       fee_amount, fee_currency, buy_transaction.exchange,
                       buy_transaction.exchange_id, buy_transaction.group,
                       buy_transaction.import_name, buy_transaction.comment,
                       buy_transaction.date, usd_equivalent, buy_transaction.updated_at)>>
                 \o trades_as_migrations(trade_list))
    ELSE IF Len(buy_only_list) # 0 /\ Len(sell_only_list) # 0
    THEN Raised("CannotMergeToMigration")
    ELSE Returned(trades_as_migrations(trade_list))

convert_to_migrations(transaction_list) ==
    LET fees == find_fees_from_transaction_list(transaction_list)
        usd == find_usd_equivalent_from_transaction_list(transaction_list)
        common == ensure_common_elements_are_identical_in_transaction_list(transaction_list)
        trade_list == SelectSeq(transaction_list, is_trade)
        buy_only_list == SelectSeq(transaction_list, LAMBDA t : ~is_trade(t) /\ is_buy_only(t))
        sell_only_list == SelectSeq(transaction_list, LAMBDA t : ~is_trade(t) /\ is_sell_only(t))
    IN  IF fees.err # NoError THEN Raised(fees.err)
        ELSE IF usd.err # NoError THEN Raised(usd.err)
        ELSE IF common # NoError THEN Raised(common)
        ELSE converted_transaction_list(transaction_list, buy_only_list, sell_only_list,
                                        trade_list, fees.fee_amount, fees.fee_currency,
                                        usd.usd_equivalent)

\* AlterationActionConvertToMigrations.perform_on_transaction_list.
convert_to_migrations_with_rewards(action, transaction_list) ==
    IF action.rewards = NoRewards THEN convert_to_migrations(transaction_list)
    ELSE LET separated == separate_transactions_by_containing(transaction_list, action.rewards[1])
             converted == convert_to_migrations(separated.transactions_without_list)
         IN  IF converted.err # NoError THEN converted
             ELSE Returned(rewards_as_staking(separated.transactions_containing_list)
                           \o converted.value)

\* action.perform_on_transaction_list(transaction_list), by the discriminator name.
perform_on_transaction_list(action, transaction_list) ==
    CASE action.name = "do_nothing" -> Returned(transaction_list)
      [] action.name = "convert_to_trades" -> convert_to_trades(transaction_list)
      [] action.name = "convert_to_staking" -> convert_to_staking(transaction_list)
      [] action.name = "keep_only_types" -> keep_only_types(action, transaction_list)
      [] action.name = "rename_to" -> rename_token(action, transaction_list)
      [] action.name = "remove_containing" -> remove_containing(action, transaction_list)
      [] action.name = "merge_same_currency" -> merge_same_currency(action, transaction_list)
      [] action.name = "convert_to_single_stake_trades" -> convert_to_single_stake_trades(action, transaction_list)
      [] action.name = "convert_to_migrations" -> convert_to_migrations_with_rewards(action, transaction_list)
      [] action.name = "convert_to_stake_migration" -> convert_to_stake_migration(action, transaction_list)

\* The rows of the list an action was given, after the call: rename_to,
\* convert_to_staking, convert_to_migrations and the rewards branches assign
\* to fields of the rows they were given; the other actions build new rows
\* or copies and leave theirs alone.
changed_in_place(action, transaction_list) ==
    CASE action.name = "rename_to" -> rename_token(action, transaction_list).value
      [] action.name = "convert_to_staking" ->
            LET stop == first_not_deposit(transaction_list, 1)
            IN  [i \in 1..Len(transaction_list) |->
                    IF stop = 0 \/ i < stop
                    THEN [transaction_list[i] EXCEPT !.transaction_type = "Staking"]
                    ELSE transaction_list[i]]
      [] action.name = "convert_to_migrations" ->
            LET rewards == IF action.rewards = NoRewards THEN <<>> ELSE action.rewards[1]
                without == SelectSeq(transaction_list, LAMBDA t : ~contains_token(t, rewards))
                converted == convert_to_migrations(without)
            IN  [i \in 1..Len(transaction_list) |->
                    IF contains_token(transaction_list[i], rewards)
                    THEN [transaction_list[i] EXCEPT !.transaction_type = "Staking"]
                    ELSE IF converted.err = NoError /\ is_trade(transaction_list[i])
                    THEN [transaction_list[i] EXCEPT !.transaction_type = "Migration"]
                    ELSE transaction_list[i]]
      [] action.name = "convert_to_stake_migration" ->
            LET rewards == IF action.rewards = NoRewards THEN <<>> ELSE action.rewards[1]
            IN  [i \in 1..Len(transaction_list) |->
                    IF contains_token(transaction_list[i], rewards)
                    THEN [transaction_list[i] EXCEPT !.transaction_type = "Staking"]
                    ELSE transaction_list[i]]
      [] OTHER -> transaction_list

\* The variant that gives every action the group itself and keeps what the
\* last one returned.
RECURSIVE perform_actions_each_on_the_group(_, _, _)
perform_actions_each_on_the_group(actions, modified_transaction_list, i) ==
    IF i > Len(actions) THEN Returned(modified_transaction_list)
    ELSE LET performed == perform_on_transaction_list(actions[i], modified_transaction_list)
         IN  IF performed.err # NoError THEN performed
             ELSE IF i = Len(actions) THEN performed
             ELSE perform_actions_each_on_the_group(actions, modified_transaction_list, i + 1)

\* The loop over alteration.actions from action i on: each action is given
\* what the one before it returned; an Exception ends the loop.
RECURSIVE perform_actions_from(_, _, _)
perform_actions_from(actions, modified_transaction_list, i) ==
    IF i > Len(actions) THEN Returned(modified_transaction_list)
    ELSE LET performed == perform_on_transaction_list(actions[i], modified_transaction_list)
         IN  IF performed.err # NoError THEN performed
             ELSE perform_actions_from(actions, performed.value, i + 1)

(***************************************************************************)
(* main(): from the rows read to the exit.                                 *)
(***************************************************************************)
\* A csv row as create_from_transaction_dict receives it; ExchangeId is the
\* combined string, the other fields are the values they parse to.
create_from_transaction_dict(transaction_dict) ==
    TokenTaxTransaction(transaction_dict.Type,
                        transaction_dict.BuyAmount, transaction_dict.BuyCurrency,
                        transaction_dict.SellAmount, transaction_dict.SellCurrency,
                        transaction_dict.FeeAmount, transaction_dict.FeeCurrency,
                        transaction_dict.Exchange,
                        create_from_combined_string(transaction_dict.ExchangeId),
                        transaction_dict.Group, transaction_dict.Import,
                        transaction_dict.Comment, transaction_dict.Date,
                        transaction_dict.USDEquivalent, transaction_dict.UpdatedAt)

\* The dict of lists, a sequence of its items in insertion order.
dict_keys(d) == {d[i].transaction_hash : i \in 1..Len(d)}

dict_position(d, transaction_hash) ==
    CHOOSE i \in 1..Len(d) : d[i].transaction_hash = transaction_hash

\* d.setdefault(transaction_hash, []) followed by the append of the row.
dict_append(d, transaction_hash, transaction) ==
    IF transaction_hash \notin dict_keys(d)
    THEN Append(d, [transaction_hash |-> transaction_hash,
                    transaction_list |-> <<transaction>>])
    ELSE [d EXCEPT ![dict_position(d, transaction_hash)].transaction_list =
                       Append(@, transaction)]

\* count_dict[key] += 1, the key being set to 0 first when it is absent.
count_increment(count_dict, key) ==
    [k \in DOMAIN count_dict \cup {key} |->
        IF k = key
        THEN (IF key \in DOMAIN count_dict THEN count_dict[key] ELSE 0) + 1
        ELSE count_dict[k]]

count_of(count_dict, key) == IF key \in DOMAIN count_dict THEN count_dict[key] ELSE 0

\* One iteration of the loop that fills the dict (lines 822-826).
SeparateTransaction ==
    /\ pc = "separate"
    /\ row_index < Len(main_transaction_list)
    /\ LET transaction == main_transaction_list[row_index + 1]
       IN  separated_transaction_list_of_lists' =
               dict_append(separated_transaction_list_of_lists,
                           transaction.exchange_id.transaction_hash, transaction)
    /\ row_index' = row_index + 1
    /\ UNCHANGED <<main_alterations_mapping, main_transaction_list,
                   input_transaction_hash_count_dict, no_match_transaction_hash_count_dict,
                   output_transaction_hash_count_dict, output_transaction_list, pc,
                   group_index, history, call_vars>>

\* The dict is complete: the four accumulators are created (lines 828-831).
StartLoop ==
    /\ pc = "separate"
    /\ row_index = Len(main_transaction_list)
    /\ pc' = "loop"
    /\ UNCHANGED <<main_alterations_mapping, main_transaction_list,
                   separated_transaction_list_of_lists,
                   input_transaction_hash_count_dict, no_match_transaction_hash_count_dict,
                   output_transaction_hash_count_dict, output_transaction_list,
                   group_index, row_index, history, call_vars>>

\* The variant in which the actions are given the rows of the dict
\* themselves: the rows carry what the first action assigned to them.
separated_after_actions_on_the_rows(actions, separated_transaction_list) ==
    IF actions = <<>> THEN separated_transaction_list
    ELSE changed_in_place(actions[1], separated_transaction_list)

\* The rows of the dict after the actions ran: the actions were given
\* copy.deepcopy(separated_transaction_list) (line 848), so what they assign
\* reaches the copies only.
separated_after_actions(actions, separated_transaction_list) ==
    separated_transaction_list

\* The variant that passes a group of one row through before looking for an alteration.
group_outcome_passing_single_rows_first(alterations_mapping, transaction_hash, separated_transaction_list) ==
    LET alteration == match_transaction_list_to_alteration(
                          alterations_mapping, transaction_hash, separated_transaction_list)
    IN  IF Len(separated_transaction_list) = 1
        THEN [kind |-> "passed", alteration |-> 0, err |-> NoError,
              emitted |-> <<separated_transaction_list[1]>>]
        ELSE IF alteration # 0
        THEN LET modified == perform_actions_from(
                                 alterations_mapping.alterations[alteration].actions,
                                 separated_transaction_list, 1)
             IN  [kind |-> IF modified.err = NoError THEN "altered" ELSE "raised",
                  alteration |-> alteration, err |-> modified.err,
                  emitted |-> modified.value]
        ELSE [kind |-> "no_match", alteration |-> 0, err |-> NoError, emitted |-> <<>>]

\* The variant that writes the rows of a group no alteration matches.
group_outcome_writing_unmatched_rows(alterations_mapping, transaction_hash, separated_transaction_list) ==
    LET alteration == match_transaction_list_to_alteration(
                          alterations_mapping, transaction_hash, separated_transaction_list)
    IN  IF alteration # 0
        THEN LET modified == perform_actions_from(
                                 alterations_mapping.alterations[alteration].actions,
                                 separated_transaction_list, 1)
             IN  [kind |-> IF modified.err = NoError THEN "altered" ELSE "raised",
                  alteration |-> alteration, err |-> modified.err,
                  emitted |-> modified.value]
        ELSE IF Len(separated_transaction_list) = 1
        THEN [kind |-> "passed", alteration |-> 0, err |-> NoError,
              emitted |-> <<separated_transaction_list[1]>>]
        ELSE [kind |-> "no_match", alteration |-> 0, err |-> NoError,
              emitted |-> separated_transaction_list]

\* The variant that catches the Exception of an action and counts the group
\* as one without alteration.
group_outcome_skipping_raised(alterations_mapping, transaction_hash, separated_transaction_list) ==
    LET alteration == match_transaction_list_to_alteration(
                          alterations_mapping, transaction_hash, separated_transaction_list)
    IN  IF alteration # 0
        THEN LET modified == perform_actions_from(
                                 alterations_mapping.alterations[alteration].actions,
                                 separated_transaction_list, 1)
             IN  IF modified.err = NoError
                 THEN [kind |-> "altered", alteration |-> alteration, err |-> NoError,
                       emitted |-> modified.value]
                 ELSE [kind |-> "no_match", alteration |-> 0, err |-> NoError,
                       emitted |-> <<>>]
        ELSE IF Len(separated_transaction_list) = 1
        THEN [kind |-> "passed", alteration |-> 0, err |-> NoError,
              emitted |-> <<separated_transaction_list[1]>>]
        ELSE [kind |-> "no_match", alteration |-> 0, err |-> NoError, emitted |-> <<>>]

\* The variant without the branch for a group of one row: a single row that
\* no alteration matches is counted as a group without alteration.
group_outcome_without_single_row_branch(alterations_mapping, transaction_hash, separated_transaction_list) ==
    LET alteration == match_transaction_list_to_alteration(
                          alterations_mapping, transaction_hash, separated_transaction_list)
    IN  IF alteration # 0
        THEN LET modified == perform_actions_from(
                                 alterations_mapping.alterations[alteration].actions,
                                 separated_transaction_list, 1)
             IN  [kind |-> IF modified.err = NoError THEN "altered" ELSE "raised",
                  alteration |-> alteration, err |-> modified.err,
                  emitted |-> modified.value]
        ELSE [kind |-> "no_match", alteration |-> 0, err |-> NoError, emitted |-> <<>>]

\* What the body of the main loop does with one item of the dict.  alteration
\* is the position of the alteration found, 0 for None.
group_outcome(alterations_mapping, transaction_hash, separated_transaction_list) ==
    LET alteration == match_transaction_list_to_alteration(
                          alterations_mapping, transaction_hash, separated_transaction_list)
    IN  IF alteration # 0
        THEN LET modified == perform_actions_from(
                                 alterations_mapping.alterations[alteration].actions,
                                 separated_transaction_list, 1)
             IN  [kind |-> IF modified.err = NoError THEN "altered" ELSE "raised",
                  alteration |-> alteration, err |-> modified.err,
                  emitted |-> modified.value]
        ELSE IF Len(separated_transaction_list) = 1
        THEN [kind |-> "passed", alteration |-> 0, err |-> NoError,
              emitted |-> <<separated_transaction_list[1]>>]
        ELSE [kind |-> "no_match", alteration |-> 0, err |-> NoError, emitted |-> <<>>]

\* What one iteration of the main loop assigns, outcome being what its body
\* did with the item: the counts (lines 835-838, 845-847, 855-857, 859-861),
\* the output (lines 851, 853), and the two objects the body was handed.
LoopBody(item, same_transaction_hash_count, outcome) ==
    /\ input_transaction_hash_count_dict' =
           count_increment(input_transaction_hash_count_dict, same_transaction_hash_count)
    /\ output_transaction_hash_count_dict' =
           IF outcome.kind \in {"altered", "raised", "passed"}
           THEN count_increment(output_transaction_hash_count_dict,
                                same_transaction_hash_count)
           ELSE output_transaction_hash_count_dict
    /\ no_match_transaction_hash_count_dict' =
           IF outcome.kind = "no_match"
           THEN count_increment(no_match_transaction_hash_count_dict,
                                same_transaction_hash_count)
           ELSE no_match_transaction_hash_count_dict
    /\ output_transaction_list' = output_transaction_list \o outcome.emitted
    /\ pc' = IF outcome.kind = "raised" THEN "raised" ELSE "loop"
    /\ history' = Append(history, [transaction_hash |-> item.transaction_hash,
                                   transaction_list |-> item.transaction_list,
                                   kind |-> outcome.kind,
                                   alteration |-> outcome.alteration,
                                   err |-> outcome.err,
                                   emitted |-> outcome.emitted])
    /\ separated_transaction_list_of_lists' =
           [separated_transaction_list_of_lists EXCEPT
               ![group_index + 1].transaction_list =
                   IF outcome.alteration = 0 THEN @
                   ELSE separated_after_actions(
                            main_alterations_mapping.alterations[outcome.alteration].actions,
                            @)]
    /\ main_alterations_mapping' =
           mapping_after_match(main_alterations_mapping, item.transaction_hash,
                               item.transaction_list)

\* One iteration of the main loop (lines 832-869).  An Exception raised by an
\* action leaves main(): the counts are already incremented, nothing is
\* appended to the output.
ProcessGroup ==
    /\ pc = "loop"
    /\ group_index < Len(separated_transaction_list_of_lists)
    /\ LET item == separated_transaction_list_of_lists[group_index + 1]
       IN  LoopBody(item, Len(item.transaction_list),
                    group_outcome(main_alterations_mapping, item.transaction_hash,
                                  item.transaction_list))
    /\ group_index' = group_index + 1
    /\ UNCHANGED <<main_transaction_list, row_index, call_vars>>

\* The loop is over: the counts are logged and the process exits (lines 871-880).
Exit ==
    /\ pc = "loop"
    /\ group_index = Len(separated_transaction_list_of_lists)
    /\ pc' = "exit"
    /\ UNCHANGED <<main_alterations_mapping, main_transaction_list,
                   separated_transaction_list_of_lists,
                   input_transaction_hash_count_dict, no_match_transaction_hash_count_dict,
                   output_transaction_hash_count_dict, output_transaction_list,
                   group_index, row_index, history, call_vars>>

(***************************************************************************)
(* The state of main() while a function is checked on its own.             *)
(***************************************************************************)
MainIdle ==
    /\ main_alterations_mapping = <<>>
    /\ main_transaction_list = <<>>
    /\ separated_transaction_list_of_lists = <<>>
    /\ input_transaction_hash_count_dict = <<>>
    /\ no_match_transaction_hash_count_dict = <<>>
    /\ output_transaction_hash_count_dict = <<>>
    /\ output_transaction_list = <<>>
    /\ pc = "idle"
    /\ group_index = 0
    /\ row_index = 0
    /\ history = <<>>

(***************************************************************************)
(* compare_tokentax_transaction_to_alteration_tx_pattern on its own.       *)
(***************************************************************************)
MatchDate == DateTime(1, 0)

\* A row with the four fields a pattern reads; the others hold fixed values.
MatchTransaction(transaction_type, buy_currency, sell_currency, exchange) ==
    TokenTaxTransaction(transaction_type, DecZero, buy_currency, DecZero, sell_currency,
                        DecZero, "", exchange, ExchangeID("h", <<>>), "", "", "",
                        MatchDate, DecZero, MatchDate)

MatchTransactions ==
    {MatchTransaction(ty, bc, sc, ex) :
        ty \in {"Deposit", "Withdrawal"}, bc \in {"", "BTC"},
        sc \in {"", "USD"}, ex \in {"A", "B"}}

\* The patterns the rule document can hold: transaction_type is a required str.
LoadedMatchPatterns ==
    {AlterationTransactionPattern(ty, bc, sc, ex) :
        ty \in {"Deposit", "Withdrawal"}, bc \in {None, "", "BTC"},
        sc \in {None, "USD"}, ex \in {None, "A", "B"}}

\* The patterns the comparison provides for: it tests each of the four fields,
\* transaction_type too, against None.
AnyMatchPatterns ==
    {AlterationTransactionPattern(ty, bc, sc, ex) :
        ty \in {None, "Deposit", "Withdrawal"}, bc \in {None, "", "BTC"},
        sc \in {None, "USD"}, ex \in {None, "A", "B"}}

InitMatch ==
    /\ MainIdle
    /\ args \in {[tokentax_transaction |-> t, alteration_transaction_pattern |-> p] :
                    t \in MatchTransactions, p \in LoadedMatchPatterns}
    /\ called = FALSE
    /\ result = FALSE

InitMatchAny ==
    /\ MainIdle
    /\ args \in {[tokentax_transaction |-> t, alteration_transaction_pattern |-> p] :
                    t \in MatchTransactions, p \in AnyMatchPatterns}
    /\ called = FALSE
    /\ result = FALSE

CallCompare ==
    /\ ~called
    /\ called' = TRUE
    /\ result' = compare_tokentax_transaction_to_alteration_tx_pattern(
                     args.tokentax_transaction, args.alteration_transaction_pattern)
    /\ UNCHANGED <<args, main_vars>>

NextMatch == CallCompare

SpecMatch == InitMatch /\ [][NextMatch]_vars

SpecMatchAny == InitMatchAny /\ [][NextMatch]_vars

\* Every field the pattern sets equals the record's field.
EverySetFieldEqual(t, p) ==
    /\ p.transaction_type # None => t.transaction_type = p.transaction_type
    /\ p.buy_currency # None => t.buy_currency = p.buy_currency
    /\ p.sell_currency # None => t.sell_currency = p.sell_currency
    /\ p.exchange # None => t.exchange = p.exchange

EveryFieldWildcard(p) ==
    /\ p.transaction_type = None
    /\ p.buy_currency = None
    /\ p.sell_currency = None
    /\ p.exchange = None

\* C1: the comparison returns true if and only if every field the pattern
\* sets (type, buy currency, sell currency, exchange) equals the record's; a
\* pattern whose exchange is set and differs does not match.
C1_MatchesIffEverySetFieldEqual ==
    called => (result = EverySetFieldEqual(args.tokentax_transaction,
                                           args.alteration_transaction_pattern))

MaxRules == 2

MaxResolveLen == 2

ResolveTransactions ==
    {MatchTransaction("Deposit", "BTC", "", "A"),
     MatchTransaction("Deposit", "ETH", "", "A"),
     MatchTransaction("Withdrawal", "", "USD", "A")}

ResolvePatterns ==
    {AlterationTransactionPattern("Deposit", None, None, None),
     AlterationTransactionPattern("Deposit", "BTC", None, None),
     AlterationTransactionPattern("Withdrawal", None, "USD", None)}

\* Pattern lists: every single pattern, and the lists of two or more that
\* start with one of two chosen pairs (a general pattern before or after a
\* more specific one, or a Withdrawal before a Deposit).
ResolvePatternLists ==
    SeqsOf(ResolvePatterns, 1, 1) \cup
    {pair \o rest :
        pair \in {<<AlterationTransactionPattern("Deposit", None, None, None),
                    AlterationTransactionPattern("Deposit", "BTC", None, None)>>,
                  <<AlterationTransactionPattern("Deposit", "BTC", None, None),
                    AlterationTransactionPattern("Deposit", None, None, None)>>,
                  <<AlterationTransactionPattern("Withdrawal", None, "USD", None),
                    AlterationTransactionPattern("Deposit", None, None, None)>>},
        rest \in SeqsOf({AlterationTransactionPattern("Deposit", None, None, None)},
                        0, MaxResolveLen - 2)}

\* Unpinned alterations over every pattern list; alterations pinned to "h1"
\* over the single patterns and one pair.
ResolveAlterations ==
    {Alteration(None, pats, <<>>) : pats \in ResolvePatternLists} \cup
    {Alteration("h1", pats, <<>>) :
        pats \in SeqsOf(ResolvePatterns, 1, 1) \cup
                 {<<AlterationTransactionPattern("Deposit", None, None, None),
                    AlterationTransactionPattern("Deposit", "BTC", None, None)>>}}

InitResolve ==
    /\ MainIdle
    /\ args \in {[alterations_mapping |-> AlterationsMapping(alts),
                  transaction_hash |-> h,
                  transaction_list |-> txs] :
                    alts \in SeqsOf(ResolveAlterations, 1, MaxRules),
                    h \in {"h1", "h2"},
                    txs \in SeqsOf(ResolveTransactions, 1, MaxResolveLen)}
    /\ called = FALSE
    /\ result = 0

CallMatchTransactionList ==
    /\ ~called
    /\ called' = TRUE
    /\ result' = match_transaction_list_to_alteration(
                     args.alterations_mapping, args.transaction_hash, args.transaction_list)
    /\ UNCHANGED <<args, main_vars>>

NextResolve == CallMatchTransactionList

SpecResolve == InitResolve /\ [][NextResolve]_vars

ArgAlterations == args.alterations_mapping.alterations

\* The hash pin of alteration i is absent or is the group's hash.
PinAdmits(i) ==
    ArgAlterations[i].tx_hash = None \/ ArgAlterations[i].tx_hash = args.transaction_hash

SameCount(i) == Len(ArgAlterations[i].tx_patterns) = Len(args.transaction_list)

\* The three conditions of the resolver, for alteration i and the group.
Admits(i) ==
    /\ PinAdmits(i)
    /\ SameCount(i)
    /\ all_transactions_in_tx_pattern_list(args.transaction_list,
                                           ArgAlterations[i].tx_patterns)

\* C3: the resolver returns the first alteration, in document order, whose
\* pin is absent or equals the group's hash, whose pattern count is the
\* group's size and whose patterns the group matches; it returns None exactly
\* when there is none; an alteration after a matching one is never returned.
C3_FirstAdmittingAlteration ==
    called =>
        /\ result \in 0..Len(ArgAlterations)
        /\ (result = 0) <=> (\A i \in 1..Len(ArgAlterations) : ~Admits(i))
        /\ result # 0 => (Admits(result) /\ \A j \in 1..(result - 1) : ~Admits(j))

\* A later alteration also admits the group, and the earlier one is returned.
C3_Witness ==
    /\ called
    /\ result # 0
    /\ \E j \in (result + 1)..Len(ArgAlterations) : Admits(j)

\* The greedy first-fit pass, stated by the binding it builds: b[i] is the
\* pattern bound to record i, no pattern is bound twice, and b[i] is the
\* first pattern, in pattern order, not bound to an earlier record, that
\* record i matches.
FirstFitBinding(records, patterns, b) ==
    \A i \in 1..Len(records) :
        /\ \A k \in 1..(i - 1) : b[k] # b[i]
        /\ compare_tokentax_transaction_to_alteration_tx_pattern(records[i], patterns[b[i]])
        /\ \A j \in 1..(b[i] - 1) :
               \/ \E k \in 1..(i - 1) : b[k] = j
               \/ ~compare_tokentax_transaction_to_alteration_tx_pattern(records[i],
                                                                         patterns[j])

FirstFitSucceeds(records, patterns) ==
    \E b \in [1..Len(records) -> 1..Len(patterns)] : FirstFitBinding(records, patterns, b)

\* The alterations the resolver consulted: all up to the one returned.
Consulted(i) == result = 0 \/ i <= result

\* C4: a group matches an alteration's pattern list if and only if there are
\* as many records as patterns and the greedy first-fit pass succeeds; a
\* group never matches a list of another length.
C4_GroupMatchIsCountAndFirstFit ==
    called =>
        \A i \in 1..Len(ArgAlterations) :
            (PinAdmits(i) /\ Consulted(i)) =>
                ((result = i) <=>
                    (/\ SameCount(i)
                     /\ FirstFitSucceeds(args.transaction_list,
                                         ArgAlterations[i].tx_patterns)))

\* An alteration with as many patterns as the group has records, each record
\* matching some pattern of it, is passed over because first fit fails; and
\* an alteration with fewer patterns than records is passed over.
C4_Witness ==
    /\ called
    /\ \E i \in 1..Len(ArgAlterations) :
           /\ PinAdmits(i) /\ Consulted(i) /\ result # i
           /\ SameCount(i)
           /\ Len(args.transaction_list) = 2
           /\ \A r \in 1..2 : \E q \in 1..2 :
                  compare_tokentax_transaction_to_alteration_tx_pattern(
                      args.transaction_list[r], ArgAlterations[i].tx_patterns[q])
    /\ \E i \in 1..Len(ArgAlterations) :
           /\ PinAdmits(i) /\ Consulted(i)
           /\ Len(ArgAlterations[i].tx_patterns) = 1
           /\ Len(args.transaction_list) = 2

\* Some assignment of the records to patterns, no pattern used twice, gives
\* every record a pattern it matches.
OneToOneAssignmentExists(records, patterns) ==
    \E b \in [1..Len(records) -> 1..Len(patterns)] :
        /\ \A i, k \in 1..Len(records) : i # k => b[i] # b[k]
        /\ \A i \in 1..Len(records) :
               compare_tokentax_transaction_to_alteration_tx_pattern(records[i],
                                                                     patterns[b[i]])

GreedyAccepts(i) ==
    all_transactions_in_tx_pattern_list(args.transaction_list, ArgAlterations[i].tx_patterns)

\* C17: whenever the greedy pass accepts a group for a pattern list of the
\* group's length, a one-to-one assignment of the records to patterns they
\* match exists.  (That the converse fails, a group with such an assignment
\* being rejected, is the state C17_Witness describes.)
C17_GreedyAcceptsOnlyAssignableGroups ==
    called =>
        \A i \in 1..Len(ArgAlterations) :
            (SameCount(i) /\ GreedyAccepts(i)) =>
                OneToOneAssignmentExists(args.transaction_list,
                                         ArgAlterations[i].tx_patterns)

\* The first record took the general pattern that alone matches the second:
\* an assignment exists, the greedy pass rejects the group, and the resolver
\* passed the alteration over.
C17_Witness ==
    /\ called
    /\ \E i \in 1..Len(ArgAlterations) :
           /\ PinAdmits(i) /\ SameCount(i) /\ Consulted(i)
           /\ OneToOneAssignmentExists(args.transaction_list,
                                       ArgAlterations[i].tx_patterns)
           /\ ~GreedyAccepts(i)
           /\ result # i

(***************************************************************************)
(* convert_to_trades on its own.                                           *)
(***************************************************************************)
MaxGroupLen == 4

TradesId == ExchangeID("h", <<>>)

\* A row of the group: its type, its two legs, its fee, its exchange, the
\* microseconds of its date and its USD equivalent; the other fields are
\* the same in every row.
TradesTransaction(transaction_type, buy_amount, buy_currency, sell_amount, sell_currency, fee_amount, fee_currency, exchange, microsecond, usd_equivalent) ==
    TokenTaxTransaction(transaction_type, buy_amount, buy_currency, sell_amount,
                        sell_currency, fee_amount, fee_currency, exchange, TradesId,
                        "g", "imp", "", DateTime(1, microsecond), usd_equivalent,
                        DateTime(1, 0))

TradesTransactions ==
    {TradesTransaction("Deposit", Dec(10, 0), "USD", DecZero, "", DecZero, "", "A", 0, DecZero),
     TradesTransaction("Deposit", Dec(9, 0), "USD", DecZero, "", Dec(1, 0), "ETH", "A", 0, Dec(9, 0)),
     TradesTransaction("Deposit", Dec(10, 0), "BTC", DecZero, "", DecZero, "", "A", 0, Dec(10, 0)),
     TradesTransaction("Withdrawal", DecZero, "", Dec(3, 0), "TOK1", DecZero, "", "A", 5, DecZero),
     TradesTransaction("Withdrawal", DecZero, "", Dec(10, 0), "TOK2", Dec(1, 0), "ETH", "A", 0, DecZero),
     TradesTransaction("Withdrawal", DecZero, "", Dec(3, 0), "TOK2", DecZero, "", "A", 0, DecZero),
     TradesTransaction("Withdrawal", DecZero, "", Dec(3, 0), "TOK1", DecZero, "", "A", 0, Dec(9, 0)),
     TradesTransaction("Trade", Dec(9, 0), "USD", Dec(3, 0), "TOK1", DecZero, "", "A", 0, DecZero),
     TradesTransaction("Deposit", DecZero, "", DecZero, "", DecZero, "", "A", 0, DecZero),
     TradesTransaction("Deposit", Dec(10, 0), "USD", DecZero, "", DecZero, "", "B", 0, DecZero)}

InitTrades ==
    /\ MainIdle
    /\ args \in {[transaction_list |-> txs] :
                    txs \in SeqsOf(TradesTransactions, 1, MaxGroupLen)}
    /\ called = FALSE
    /\ result = Returned(<<>>)

CallConvertToTrades ==
    /\ ~called
    /\ called' = TRUE
    /\ result' = convert_to_trades(args.transaction_list)
    /\ UNCHANGED <<args, main_vars>>

NextTrades == CallConvertToTrades

SpecTrades == InitTrades /\ [][NextTrades]_vars

\* The group, its buy-only rows B and its sell-only rows S, in group order.
G == args.transaction_list

B == SelectSeq(G, is_buy_only)

S == SelectSeq(G, is_sell_only)

EveryRowOneLeg == \A i \in 1..Len(G) : is_buy_only(G[i]) \/ is_sell_only(G[i])

\* The group has the shape: b buy-only rows, s sell-only rows, nothing else.
Shape(b, s) == EveryRowOneLeg /\ Len(B) = b /\ Len(S) = s

FeeSources == {i \in 1..Len(G) : G[i].fee_currency # ""}

UsdSources == {i \in 1..Len(G) : ~DecIsZero(G[i].usd_equivalent)}

Consistent ==
    \A i \in 1..Len(G) :
        /\ G[i].exchange = G[1].exchange
        /\ G[i].exchange_id.transaction_hash = G[1].exchange_id.transaction_hash
        /\ G[i].group = G[1].group
        /\ G[i].import_name = G[1].import_name
        /\ G[i].comment = G[1].comment
        /\ G[i].date.second = G[1].date.second
        /\ G[i].updated_at.second = G[1].updated_at.second

\* The fee and the USD equivalent of the one row that carries them, zero if none does.
GroupFeeAmount ==
    IF FeeSources = {} THEN DecZero ELSE G[CHOOSE i \in FeeSources : TRUE].fee_amount

GroupFeeCurrency ==
    IF FeeSources = {} THEN "" ELSE G[CHOOSE i \in FeeSources : TRUE].fee_currency

GroupUsdEquivalent ==
    IF UsdSources = {} THEN DecZero ELSE G[CHOOSE i \in UsdSources : TRUE].usd_equivalent

Out == result.value

\* Exact arithmetic on Decimals: the values as integers in units of 10^e.
RECURSIVE SumScaled(_, _, _)
SumScaled(amounts, n, e) ==
    IF n = 0 THEN 0 ELSE DecScaled(amounts[n], e) + SumScaled(amounts, n - 1, e)

RECURSIVE MinExpOf(_, _, _)
MinExpOf(amounts, n, e) ==
    IF n = 0 THEN e
    ELSE MinExpOf(amounts, n - 1, IF amounts[n].e < e THEN amounts[n].e ELSE e)

\* The sum of the amounts is exactly the original amount.
SumIsExactly(amounts, original) ==
    LET e == MinExpOf(amounts, Len(amounts), original.e)
    IN  SumScaled(amounts, Len(amounts), e) = DecScaled(original, e)

Abs(x) == IF x < 0 THEN 0 - x ELSE x

\* The sum of the amounts is within half a unit in the last place of each.
SumIsWithinRounding(amounts, original) ==
    LET e == MinExpOf(amounts, Len(amounts), original.e)
        ulps == [k \in 1..Len(amounts) |-> Pow10(amounts[k].e - e)]
    IN  2 * Abs(SumScaled(amounts, Len(amounts), e) - DecScaled(original, e))
            <= SumNat(ulps, Len(amounts))

\* original / n is a decimal of at most Prec digits.  A quotient by n that
\* terminates has at most 4 * NumDigits(n) more decimals than the dividend.
QuotientIsRepresentable(original, n) ==
    LET scaled == original.c * Pow10(4 * NumDigits(n))
    IN  /\ scaled % n = 0
        /\ NumDigits(DecStrip(scaled \div n, 0, 4 * NumDigits(n)).c) <= Prec

OutBuyAmounts == [k \in 1..Len(Out) |-> Out[k].buy_amount]

OutSellAmounts == [k \in 1..Len(Out) |-> Out[k].sell_amount]

FannedOutBuy == called /\ result.err = NoError /\ Len(B) = 1 /\ Len(S) > 1

FannedOutSell == called /\ result.err = NoError /\ Len(S) = 1 /\ Len(B) > 1

\* C7 as stated: in a fan-out the emitted buy amounts (one buy-only row, n > 1
\* sell-only rows) sum exactly to the original buy amount, and the emitted
\* sell amounts (one sell-only row, n > 1 buy-only rows) sum exactly to the
\* original sell amount.
C7_FanOutSumIsExact ==
    /\ FannedOutBuy => SumIsExactly(OutBuyAmounts, B[1].buy_amount)
    /\ FannedOutSell => SumIsExactly(OutSellAmounts, S[1].sell_amount)

\* C7 as amended: each emitted amount is the original divided by n and rounded
\* to the precision of the decimal context, so the sum is within n halves of
\* a unit in the last place of the original, and is exactly the original
\* whenever the quotient has no more digits than the context keeps.
C7_FanOutSumIsWithinRounding ==
    /\ FannedOutBuy =>
           /\ SumIsWithinRounding(OutBuyAmounts, B[1].buy_amount)
           /\ QuotientIsRepresentable(B[1].buy_amount, Len(S))
                  => SumIsExactly(OutBuyAmounts, B[1].buy_amount)
    /\ FannedOutSell =>
           /\ SumIsWithinRounding(OutSellAmounts, S[1].sell_amount)
           /\ QuotientIsRepresentable(S[1].sell_amount, Len(B))
                  => SumIsExactly(OutSellAmounts, S[1].sell_amount)

\* A fan-out over three rows whose quotient is rounded, and so is not conserved.
C7_Witness ==
    /\ FannedOutBuy
    /\ Len(S) = 3
    /\ ~QuotientIsRepresentable(B[1].buy_amount, 3)
    /\ ~SumIsExactly(OutBuyAmounts, B[1].buy_amount)

\* C8: with one buy-only row and n > 1 sell-only rows convert_to_trades emits
\* n Trades, one per sell-only row in group order, each with that row's sell
\* leg, the buy row's currency, and the buy amount, the fee and the USD
\* equivalent of the group divided by n; with n > 1 buy-only rows and one
\* sell-only row it emits n Trades, each with a buy row's own buy leg and
\* the sell amount and the fee divided by n.
C8_FanOutEmitsOneTradePerLeg ==
    called =>
        /\ (Len(B) = 1 /\ Len(S) > 1 /\ result.err = NoError) =>
               /\ Len(Out) = Len(S)
               /\ \A k \in 1..Len(S) :
                      /\ Out[k].transaction_type = "Trade"
                      /\ Out[k].sell_amount = S[k].sell_amount
                      /\ Out[k].sell_currency = S[k].sell_currency
                      /\ Out[k].buy_currency = B[1].buy_currency
                      /\ Out[k].buy_amount = DecDivInt(B[1].buy_amount, Len(S))
                      /\ Out[k].fee_amount = DecDivInt(GroupFeeAmount, Len(S))
                      /\ Out[k].fee_currency = GroupFeeCurrency
                      /\ Out[k].usd_equivalent = DecDivInt(GroupUsdEquivalent, Len(S))
        /\ (Len(S) = 1 /\ Len(B) > 1 /\ result.err = NoError) =>
               /\ Len(Out) = Len(B)
               /\ \A k \in 1..Len(B) :
                      /\ Out[k].transaction_type = "Trade"
                      /\ Out[k].buy_amount = B[k].buy_amount
                      /\ Out[k].buy_currency = B[k].buy_currency
                      /\ Out[k].sell_currency = S[1].sell_currency
                      /\ Out[k].sell_amount = DecDivInt(S[1].sell_amount, Len(B))
                      /\ Out[k].fee_amount = DecDivInt(GroupFeeAmount, Len(B))
                      /\ Out[k].fee_currency = GroupFeeCurrency
        /\ (/\ Consistent /\ Cardinality(FeeSources) <= 1 /\ Cardinality(UsdSources) <= 1
            /\ \E n \in 2..Len(G) : Shape(1, n) \/ Shape(n, 1))
               => result.err = NoError

\* Scenario B: 9 USD bought against two sold legs gives 4.5 USD in each Trade.
C8_Witness ==
    /\ called /\ result.err = NoError
    /\ Shape(1, 2)
    /\ B[1].buy_amount = Dec(9, 0)
    /\ FeeSources # {}
    /\ Len(Out) = 2
    /\ Out[1].buy_amount = Dec(45, -1)
    /\ Out[1].sell_currency # Out[2].sell_currency

\* C9: on a consistent group of one buy-only and one sell-only row, in either
\* order, convert_to_trades emits one Trade with the buy row's buy leg, the
\* sell row's sell leg, and the fee and USD equivalent of the one row that
\* carried them, zero when none did.
C9_OneBuyOneSellGivesOneTrade ==
    (/\ called /\ Shape(1, 1) /\ Consistent
     /\ Cardinality(FeeSources) <= 1 /\ Cardinality(UsdSources) <= 1) =>
        /\ result.err = NoError
        /\ Len(Out) = 1
        /\ Out[1].transaction_type = "Trade"
        /\ Out[1].buy_amount = B[1].buy_amount
        /\ Out[1].buy_currency = B[1].buy_currency
        /\ Out[1].sell_amount = S[1].sell_amount
        /\ Out[1].sell_currency = S[1].sell_currency
        /\ Out[1].fee_amount = GroupFeeAmount
        /\ Out[1].fee_currency = GroupFeeCurrency
        /\ Out[1].usd_equivalent = GroupUsdEquivalent

\* The sell row comes first and carries the fee; the buy row carries the USD equivalent.
C9_Witness ==
    /\ called /\ Shape(1, 1) /\ Consistent
    /\ is_sell_only(G[1])
    /\ FeeSources = {1}
    /\ UsdSources = {2}
    /\ result.err = NoError

\* C10: convert_to_trades fails, and emits nothing, whenever more than one
\* row of the group has a fee currency or more than one has a non-zero USD
\* equivalent, whatever the group's shape.  (The claim also names the error
\* raised; this is the part of it that does not depend on which raise
\* statement comes first.)
C10_AmbiguousSourceAlwaysFails ==
    (called /\ (Cardinality(FeeSources) > 1 \/ Cardinality(UsdSources) > 1)) =>
        /\ result.err # NoError
        /\ Out = <<>>

ShapeErrors == {"BothBuyAndSell", "BuyOrSellCountUnsupported"}

\* One buy-only row with sell-only rows, or one sell-only row with buy-only
\* rows, and no other row.
SupportedShape ==
    /\ EveryRowOneLeg
    /\ \/ Len(B) = 1 /\ Len(S) >= 1
       \/ Len(B) >= 1 /\ Len(S) = 1

\* C11: on a group with a row that has both legs or neither, or with no
\* buy-only row, no sell-only row, or several of each, convert_to_trades
\* fails and returns nothing; the error is a shape error when the group has
\* at most one fee source and agrees on its shared fields, and the error of
\* the fee or shared-field test, which come first, otherwise.  It returns
\* trades only for the shapes (1,1), (1,n>1) and (n>1,1).
C11_UnsupportedShapeFails ==
    called =>
        /\ ~SupportedShape =>
              /\ result.err # NoError
              /\ Out = <<>>
              /\ (Cardinality(FeeSources) <= 1 /\ Consistent) <=> result.err \in ShapeErrors
              /\ Cardinality(FeeSources) > 1 => result.err = "MultipleFees"
        /\ result.err = NoError => SupportedShape
        /\ (SupportedShape /\ Cardinality(FeeSources) <= 1 /\ Consistent
                /\ (Len(B) = 1 => Cardinality(UsdSources) <= 1))
              => result.err = NoError

\* Two buy-only and two sell-only rows, nothing else wrong with the group.
C11_Witness ==
    /\ called /\ Shape(2, 2) /\ Consistent /\ Cardinality(FeeSources) <= 1
    /\ result.err = "BuyOrSellCountUnsupported"

(***************************************************************************)
(* merge_same_currency called on its own: the specification SpecMerge.     *)
(***************************************************************************)
MaxMergeLen == 3

MergeAction == [name |-> "merge_same_currency", merge_currency |-> "XYZ"]

\* Rows that buy or sell XYZ, one of them with fees, one with a USD
\* equivalent, one with an amount of more digits than the precision, one of
\* another exchange, one with both legs; and a row that does not touch XYZ.
MergeTransactions ==
    {TradesTransaction("Deposit", Dec(10, 0), "XYZ", DecZero, "", DecZero, "", "A", 0, DecZero),
     TradesTransaction("Withdrawal", DecZero, "", Dec(4, 0), "XYZ", DecZero, "", "A", 0, DecZero),
     TradesTransaction("Withdrawal", DecZero, "", Dec(10, 0), "XYZ", Dec(1, 0), "ETH", "A", 0, DecZero),
     TradesTransaction("Deposit", Dec(45, -1), "XYZ", DecZero, "", DecZero, "", "A", 5, Dec(9, 0)),
     TradesTransaction("Deposit", Dec(1005, 0), "XYZ", DecZero, "", DecZero, "", "A", 0, DecZero),
     TradesTransaction("Deposit", Dec(10, 0), "XYZ", DecZero, "", DecZero, "", "B", 0, DecZero),
     TradesTransaction("Trade", Dec(9, 0), "XYZ", Dec(3, 0), "ABC", DecZero, "", "A", 0, DecZero),
     TradesTransaction("Deposit", Dec(5, 0), "ABC", DecZero, "", Dec(2, 0), "ETH", "A", 0, Dec(5, 0))}

InitMerge ==
    /\ MainIdle
    /\ args \in {[action |-> MergeAction, transaction_list |-> txs] :
                    txs \in SeqsOf(MergeTransactions, 1, MaxMergeLen)}
    /\ called = FALSE
    /\ result = Returned(<<>>)

CallMergeSameCurrency ==
    /\ ~called
    /\ called' = TRUE
    /\ result' = merge_same_currency(args.action, args.transaction_list)
    /\ UNCHANGED <<args, main_vars>>

NextMerge == CallMergeSameCurrency

SpecMerge == InitMerge /\ [][NextMerge]_vars

\* The rows of the group that touch the merge currency, and the others.
Mergeable == SelectSeq(G, LAMBDA t : touches_merge_currency(args.action, t))

NotMergeable == SelectSeq(G, LAMBDA t : ~touches_merge_currency(args.action, t))

\* What the action requires of the mergeable rows before it nets them: there
\* are some, at most one carries a fee, at most one a USD equivalent, they
\* agree on the shared fields, and each is buy-only or sell-only.
MergePreconditions ==
    /\ Len(Mergeable) > 0
    /\ Len(has_fees_list(Mergeable)) <= 1
    /\ Len(has_usd_equivalent_list(Mergeable)) <= 1
    /\ ensure_common_elements_are_identical_in_transaction_list(Mergeable) = NoError
    /\ \A i \in 1..Len(Mergeable) : is_buy_only(Mergeable[i]) \/ is_sell_only(Mergeable[i])

\* The smallest exponent among the amounts of the mergeable rows, at most 0.
RECURSIVE MergeMinExp(_)
MergeMinExp(k) ==
    IF k = 0 THEN 0
    ELSE LET below == MergeMinExp(k - 1)
             buy == Mergeable[k].buy_amount.e
             sell == Mergeable[k].sell_amount.e
             least == IF buy < sell THEN buy ELSE sell
         IN  IF least < below THEN least ELSE below

\* The signed sum of the first k mergeable rows, buys positive and sells
\* negative, as an integer number of units 10^e.
RECURSIVE SignedSum(_, _)
SignedSum(k, e) ==
    IF k = 0 THEN 0
    ELSE SignedSum(k - 1, e) + DecScaled(Mergeable[k].buy_amount, e)
                               - DecScaled(Mergeable[k].sell_amount, e)

Net == Dec(SignedSum(Len(Mergeable), MergeMinExp(Len(Mergeable))), MergeMinExp(Len(Mergeable)))

\* x has at most Prec significant digits.
FitsPrecision(x) == x = 0 \/ NumDigits(DecStrip(Abs(x), 0, 40).c) <= Prec

\* No sum of the first k rows needs more digits than the precision.
EverySumFitsPrecision ==
    \A k \in 1..Len(Mergeable) : FitsPrecision(SignedSum(k, MergeMinExp(Len(Mergeable))))

\* The rows the call returned beyond the rows that were not merged.
Synthetic == SubSeq(Out, Len(NotMergeable) + 1, Len(Out))

\* The call emitted one Deposit (Withdrawal) of the amount in the merge currency.
EmitsOneDepositOf(amount) ==
    /\ result.err = NoError
    /\ Len(Synthetic) = 1
    /\ Synthetic[1].transaction_type = "Deposit"
    /\ Synthetic[1].buy_currency = args.action.merge_currency
    /\ DecEq(Synthetic[1].buy_amount, amount)
    /\ Synthetic[1].sell_currency = "" /\ DecIsZero(Synthetic[1].sell_amount)

EmitsOneWithdrawalOf(amount) ==
    /\ result.err = NoError
    /\ Len(Synthetic) = 1
    /\ Synthetic[1].transaction_type = "Withdrawal"
    /\ Synthetic[1].sell_currency = args.action.merge_currency
    /\ DecEq(Synthetic[1].sell_amount, amount)
    /\ Synthetic[1].buy_currency = "" /\ DecIsZero(Synthetic[1].buy_amount)

NetOutcome ==
    IF Net.c > 0 THEN EmitsOneDepositOf(Net)
    ELSE IF Net.c < 0 THEN EmitsOneWithdrawalOf(Dec(0 - Net.c, Net.e))
    ELSE result.err = "MergeCancelledOut" /\ Out = <<>>

\* The original statement of C12: the record emitted carries the signed sum
\* of the mergeable rows, whatever its number of digits.
C12_MergeEmitsExactNet ==
    (called /\ MergePreconditions) => NetOutcome

\* C12: merge_same_currency adds the buy amounts and subtracts the sell
\* amounts of the rows touching the token, row by row in decimal arithmetic
\* of the context's precision.  When no partial sum needs more digits than
\* that, it emits one Deposit of the net if the net is positive, one
\* Withdrawal of its magnitude if it is negative, and raises the
\* cancelled-out error, emitting nothing, if it is zero.  In every case it
\* emits, after the rows that do not touch the token, exactly one record in
\* the token whose amount has at most that many digits, or it fails and
\* emits nothing.
C12_MergeEmitsRoundedNet ==
    (called /\ MergePreconditions) =>
        /\ EverySumFitsPrecision => NetOutcome
        /\ \/ result.err = "MergeCancelledOut" /\ Out = <<>>
           \/ /\ result.err = NoError
              /\ SubSeq(Out, 1, Len(NotMergeable)) = NotMergeable
              /\ Len(Synthetic) = 1
              /\ \/ /\ Synthetic[1].transaction_type = "Deposit"
                    /\ Synthetic[1].buy_currency = args.action.merge_currency
                    /\ Synthetic[1].buy_amount.c > 0
                    /\ FitsPrecision(Synthetic[1].buy_amount.c)
                 \/ /\ Synthetic[1].transaction_type = "Withdrawal"
                    /\ Synthetic[1].sell_currency = args.action.merge_currency
                    /\ Synthetic[1].sell_amount.c > 0
                    /\ FitsPrecision(Synthetic[1].sell_amount.c)

\* Scenario D with a row in between that is not merged: buy 10, sell 4.
C12_Witness ==
    /\ called /\ MergePreconditions /\ EverySumFitsPrecision
    /\ Len(Mergeable) = 2 /\ Len(NotMergeable) = 1
    /\ Net = Dec(6, 0)
    /\ EmitsOneDepositOf(Dec(6, 0))

(***************************************************************************)
(* An action's perform_on_transaction_list called on its own: the          *)
(* specification SpecAction.                                               *)
(***************************************************************************)
MaxActionLen == 3

ConvertToStaking == [name |-> "convert_to_staking"]

ConvertToMigrations == [name |-> "convert_to_migrations", rewards |-> NoRewards]

ConvertToMigrationsWithRewards == [name |-> "convert_to_migrations", rewards |-> Rewards(<<"TOK2">>)]

ConvertToSingleStakeTrades ==
    [name |-> "convert_to_single_stake_trades", unstaked_token |-> "TOK1",
     staked_token |-> "sTOK1"]

ConvertToStakeMigration ==
    [name |-> "convert_to_stake_migration", unstaked_token |-> "TOK1",
     staked_token |-> "sTOK1", rewards |-> NoRewards]

ConvertToStakeMigrationWithRewards ==
    [name |-> "convert_to_stake_migration", unstaked_token |-> "TOK1",
     staked_token |-> "sTOK1", rewards |-> Rewards(<<"BTC">>)]

CalledActions ==
    {ConvertToStaking, ConvertToMigrations, ConvertToMigrationsWithRewards,
     ConvertToSingleStakeTrades, ConvertToStakeMigration, ConvertToStakeMigrationWithRewards}

InitAction ==
    /\ MainIdle
    /\ args \in {[action |-> action, transaction_list |-> txs] :
                    action \in CalledActions,
                    txs \in SeqsOf(TradesTransactions, 1, MaxActionLen)}
    /\ called = FALSE
    /\ result = Returned(<<>>)

CallPerformOnTransactionList ==
    /\ ~called
    /\ called' = TRUE
    /\ result' = perform_on_transaction_list(args.action, args.transaction_list)
    /\ UNCHANGED <<args, main_vars>>

NextAction == CallPerformOnTransactionList

SpecAction == InitAction /\ [][NextAction]_vars

EveryRowIsDeposit == \A i \in 1..Len(G) : G[i].transaction_type = "Deposit"

\* C13: convert_to_staking on a group of Deposit rows returns the same rows
\* in the same order, each relabelled Staking and otherwise unchanged; on a
\* group with a row of any other type it raises the error of the type test
\* and returns nothing.
C13_StakingRelabelsDepositsOnly ==
    (called /\ args.action = ConvertToStaking) =>
        IF EveryRowIsDeposit
        THEN /\ result.err = NoError
             /\ Len(Out) = Len(G)
             /\ \A i \in 1..Len(G) :
                    /\ Out[i].transaction_type = "Staking"
                    /\ Out[i] = [G[i] EXCEPT !.transaction_type = "Staking"]
        ELSE /\ result.err = "NotDeposit"
             /\ Out = <<>>

\* Three Deposit rows, of two currencies, one of them with a fee.
C13_Witness ==
    /\ called /\ args.action = ConvertToStaking
    /\ Len(G) = 3 /\ EveryRowIsDeposit
    /\ G[1].buy_currency # G[2].buy_currency
    /\ G[3].fee_currency # ""
    /\ result.err = NoError /\ Len(Out) = 3

\* The rows typed Trade, and the buy-only and sell-only rows among the others.
Trades == SelectSeq(G, is_trade)

OtherBuys == SelectSeq(G, LAMBDA t : ~is_trade(t) /\ is_buy_only(t))

OtherSells == SelectSeq(G, LAMBDA t : ~is_trade(t) /\ is_sell_only(t))

\* C14: convert_to_migrations without rewards, on a group with at most one
\* fee source, at most one USD source and identical shared fields.  With
\* one buy-only and one sell-only row among the rows not typed Trade it
\* emits one Migration of the buy leg, the sell leg and the group's fee and
\* USD equivalent; with some of each but not one of each it raises the shape
\* error and emits nothing; whenever it returns, every row typed Trade is
\* emitted, in order, relabelled Migration and otherwise unchanged.
C14_MigrationOfOneBuyOneSellAndTrades ==
    (/\ called /\ args.action = ConvertToMigrations
     /\ Cardinality(FeeSources) <= 1 /\ Cardinality(UsdSources) <= 1 /\ Consistent) =>
        /\ (Len(OtherBuys) = 1 /\ Len(OtherSells) = 1) =>
              /\ result.err = NoError
              /\ Len(Out) = 1 + Len(Trades)
              /\ Out[1].transaction_type = "Migration"
              /\ Out[1].buy_amount = OtherBuys[1].buy_amount
              /\ Out[1].buy_currency = OtherBuys[1].buy_currency
              /\ Out[1].sell_amount = OtherSells[1].sell_amount
              /\ Out[1].sell_currency = OtherSells[1].sell_currency
              /\ Out[1].fee_amount = GroupFeeAmount
              /\ Out[1].fee_currency = GroupFeeCurrency
              /\ Out[1].usd_equivalent = GroupUsdEquivalent
        /\ (/\ Len(OtherBuys) >= 1 /\ Len(OtherSells) >= 1
            /\ ~(Len(OtherBuys) = 1 /\ Len(OtherSells) = 1)) =>
              /\ result.err = "CannotMergeToMigration"
              /\ Out = <<>>
        /\ result.err = NoError =>
              /\ Len(Out) >= Len(Trades)
              /\ \A k \in 1..Len(Trades) :
                    Out[Len(Out) - Len(Trades) + k] =
                        [Trades[k] EXCEPT !.transaction_type = "Migration"]

\* A sell-only row, a Trade row and a buy-only row that carries the fee.
C14_Witness ==
    /\ called /\ args.action = ConvertToMigrations
    /\ Cardinality(FeeSources) = 1 /\ Cardinality(UsdSources) <= 1 /\ Consistent
    /\ Len(G) = 3 /\ Len(Trades) = 1 /\ Len(OtherBuys) = 1 /\ Len(OtherSells) = 1
    /\ is_sell_only(G[1])
    /\ OtherBuys[1].fee_currency # ""
    /\ result.err = NoError /\ Len(Out) = 2

(***************************************************************************)
(* convert_to_migrations without rewards on groups that hold rows of every *)
(* kind of leg: the specification SpecMigrations.                          *)
(***************************************************************************)
MaxMigrationLen == 3

\* Buy-only and sell-only rows, a Trade, a row without a leg, a row that is
\* not a Trade and has both legs, and a row of another exchange.
MigrationTransactions ==
    {TradesTransaction("Deposit", Dec(10, 0), "USD", DecZero, "", DecZero, "", "A", 0, DecZero),
     TradesTransaction("Deposit", Dec(10, 0), "BTC", DecZero, "", Dec(1, 0), "ETH", "A", 0, DecZero),
     TradesTransaction("Withdrawal", DecZero, "", Dec(3, 0), "TOK1", DecZero, "", "A", 5, DecZero),
     TradesTransaction("Withdrawal", DecZero, "", Dec(10, 0), "TOK2", DecZero, "", "A", 0, Dec(9, 0)),
     TradesTransaction("Trade", Dec(9, 0), "USD", Dec(3, 0), "TOK1", DecZero, "", "A", 0, DecZero),
     TradesTransaction("Deposit", DecZero, "", DecZero, "", DecZero, "", "A", 0, DecZero),
     TradesTransaction("Income", Dec(9, 0), "USD", Dec(3, 0), "TOK1", DecZero, "", "A", 0, DecZero),
     TradesTransaction("Deposit", Dec(10, 0), "USD", DecZero, "", DecZero, "", "B", 0, DecZero)}

InitMigrations ==
    /\ MainIdle
    /\ args \in {[action |-> ConvertToMigrations, transaction_list |-> txs] :
                    txs \in SeqsOf(MigrationTransactions, 0, MaxMigrationLen)}
    /\ called = FALSE
    /\ result = Returned(<<>>)

NextMigrations == CallPerformOnTransactionList

SpecMigrations == InitMigrations /\ [][NextMigrations]_vars

\* The rows that are not Trades and have both legs or none.
OtherRows ==
    SelectSeq(G, LAMBDA t : ~is_trade(t) /\ ~is_buy_only(t) /\ ~is_sell_only(t))

OneBuyOneSell == Len(OtherBuys) = 1 /\ Len(OtherSells) = 1

OneSideOnly == Len(OtherBuys) = 0 \/ Len(OtherSells) = 0

PreconditionErrors ==
    {"MultipleFees", "MultipleUsdEquivalent", "MultipleExchanges", "MultipleExchangeIds",
     "MultipleGroups", "MultipleImportNames", "MultipleComments", "MultipleDates",
     "MultipleUpdatedAt"}

\* C21: convert_to_migrations without rewards.  Whenever it returns, its
\* output has (1 if the rows that are not Trades hold exactly one buy-only
\* and one sell-only row, else 0) + (number of Trade rows) rows.  On a group
\* with at most one fee source, at most one USD source and identical shared
\* fields whose rows that are not Trades have only one side present, it
\* returns, and what it returns is the Trade rows relabelled Migration: the
\* buy-only or sell-only rows and the rows with both legs or none are
\* dropped.  The only error that is not one of the fee, USD and shared-field
\* checks needs a buy-only and a sell-only row.
C21_OneSidedRowsDroppedWithoutError ==
    (called /\ args.action = ConvertToMigrations) =>
        /\ result.err = NoError =>
               Len(Out) = (IF OneBuyOneSell THEN 1 ELSE 0) + Len(Trades)
        /\ (/\ Cardinality(FeeSources) <= 1 /\ Cardinality(UsdSources) <= 1
            /\ Consistent /\ OneSideOnly) =>
               /\ result.err = NoError
               /\ Out = [k \in 1..Len(Trades) |->
                            [Trades[k] EXCEPT !.transaction_type = "Migration"]]
        /\ result.err \notin PreconditionErrors \cup {NoError} =>
               /\ result.err = "CannotMergeToMigration"
               /\ Len(OtherBuys) >= 1 /\ Len(OtherSells) >= 1
               /\ ~OneBuyOneSell

\* Two buy-only rows, one of them the fee source, and a row that is not a
\* Trade and has both legs: the action returned nothing and raised nothing.
C21_Witness ==
    /\ called /\ args.action = ConvertToMigrations
    /\ Len(G) = 3 /\ Len(OtherBuys) = 2 /\ Len(OtherSells) = 0
    /\ Len(OtherRows) = 1 /\ OtherRows[1].buy_currency # ""
    /\ Cardinality(FeeSources) = 1
    /\ result.err = NoError /\ Out = <<>>

(***************************************************************************)
(* main() as a whole: the specification Spec.                              *)
(***************************************************************************)
MaxRows == 3

RowDate == DateTime(1, 0)

\* A csv row: its type, its two legs and its ExchangeId; the other columns
\* are the same in every row.
Row(Type, BuyAmount, BuyCurrency, SellAmount, SellCurrency, ExchangeId) ==
    [Type |-> Type, BuyAmount |-> BuyAmount, BuyCurrency |-> BuyCurrency,
     SellAmount |-> SellAmount, SellCurrency |-> SellCurrency,
     FeeAmount |-> DecZero, FeeCurrency |-> "", Exchange |-> "A",
     ExchangeId |-> ExchangeId, Group |-> "g", Import |-> "imp", Comment |-> "",
     Date |-> RowDate, USDEquivalent |-> DecZero, UpdatedAt |-> RowDate]

Rows ==
    {Row("Withdrawal", DecZero, "", Dec(10, 0), "USD", <<"a">>),
     Row("Deposit", Dec(9, 0), "BTC", DecZero, "", <<"a", "-", "1">>),
     Row("Deposit", Dec(3, 0), "ETH", DecZero, "", <<"b">>),
     Row("Deposit", Dec(9, 0), "BTC", DecZero, "", <<"b", "-", "2">>),
     Row("Withdrawal", DecZero, "", Dec(10, 0), "USD", <<"b">>),
     Row("Deposit", Dec(3, 0), "ETH", DecZero, "", <<"c">>)}

AnyDeposit == AlterationTransactionPattern("Deposit", None, None, None)

AnyWithdrawal == AlterationTransactionPattern("Withdrawal", None, None, None)

\* Scenario A: a Withdrawal of USD and a Deposit of BTC become one Trade.
WithdrawalAndDepositToTrade ==
    Alteration(None,
               <<AlterationTransactionPattern("Withdrawal", None, "USD", None),
                 AlterationTransactionPattern("Deposit", "BTC", None, None)>>,
               <<[name |-> "convert_to_trades"]>>)

PinnedDepositToStaking ==
    Alteration("a", <<AnyDeposit>>, <<[name |-> "convert_to_staking"]>>)

DepositToRenamedStaking ==
    Alteration(None, <<AnyDeposit>>,
               <<[name |-> "rename_to", token_name |-> "BTC", rename_to |-> "WBTC"],
                 [name |-> "convert_to_staking"]>>)

TwoDepositsToTrade ==
    Alteration(None, <<AnyDeposit, AnyDeposit>>, <<[name |-> "convert_to_trades"]>>)

DepositAndWithdrawalKeepDeposit ==
    Alteration(None, <<AnyDeposit, AnyWithdrawal>>,
               <<[name |-> "keep_only_types", keeps |-> <<"Deposit">>],
                 [name |-> "remove_containing", removes |-> <<"ETH">>]>>)

WithdrawalUntouched == Alteration(None, <<AnyWithdrawal>>, <<[name |-> "do_nothing"]>>)

\* Three actions whose order shows: the rows are renamed, relabelled Staking,
\* and only then filtered by the new label.
TwoDepositsToKeptStaking ==
    Alteration(None, <<AnyDeposit, AnyDeposit>>,
               <<[name |-> "rename_to", token_name |-> "BTC", rename_to |-> "WBTC"],
                 [name |-> "convert_to_staking"],
                 [name |-> "keep_only_types", keeps |-> <<"Staking">>]>>)

\* An alteration whose action raises on the row its pattern matches.
WithdrawalToStaking ==
    Alteration(None, <<AnyWithdrawal>>, <<[name |-> "convert_to_staking"]>>)

\* The rule documents main() is run with.
Mappings ==
    {AlterationsMapping(alterations) :
        alterations \in {<<>>,
                         <<WithdrawalAndDepositToTrade>>,
                         <<PinnedDepositToStaking>>,
                         <<DepositToRenamedStaking>>,
                         <<TwoDepositsToTrade, WithdrawalAndDepositToTrade>>,
                         <<WithdrawalAndDepositToTrade, DepositAndWithdrawalKeepDeposit>>,
                         <<PinnedDepositToStaking, DepositToRenamedStaking,
                           WithdrawalUntouched>>,
                         <<WithdrawalUntouched, DepositAndWithdrawalKeepDeposit,
                           TwoDepositsToTrade>>,
                         <<WithdrawalToStaking, TwoDepositsToTrade>>,
                         <<TwoDepositsToKeptStaking, DepositToRenamedStaking>>}}

Init ==
    /\ main_alterations_mapping \in Mappings
    /\ main_transaction_list \in
           {[i \in 1..Len(rows) |-> create_from_transaction_dict(rows[i])] :
               rows \in SeqsOf(Rows, 0, MaxRows)}
    /\ separated_transaction_list_of_lists = <<>>
    /\ input_transaction_hash_count_dict = <<>>
    /\ no_match_transaction_hash_count_dict = <<>>
    /\ output_transaction_hash_count_dict = <<>>
    /\ output_transaction_list = <<>>
    /\ pc = "separate"
    /\ group_index = 0
    /\ row_index = 0
    /\ history = <<>>
    /\ args = <<>>
    /\ called = FALSE
    /\ result = FALSE

Next ==
    \/ SeparateTransaction
    \/ StartLoop
    \/ ProcessGroup
    \/ Exit

Spec == Init /\ [][Next]_vars

MainAlterations == main_alterations_mapping.alterations

\* Alteration i is not pinned to another hash and has one pattern, which the row matches.
SinglePatternRuleMatches(i, h) ==
    /\ MainAlterations[i].tx_hash = None \/ MainAlterations[i].tx_hash = h.transaction_hash
    /\ Len(MainAlterations[i].tx_patterns) = 1
    /\ compare_tokentax_transaction_to_alteration_tx_pattern(
           h.transaction_list[1], MainAlterations[i].tx_patterns[1])

SingleRowGroups == {k \in 1..Len(history) : Len(history[k].transaction_list) = 1}

\* C5 as stated: a group of one row is written to the output as that row,
\* unchanged, unless a single-pattern alteration pinned to a hash matches it;
\* an unpinned single-pattern alteration that matches it does not rewrite it.
C5_SingleRowUnchangedUnlessPinnedRule ==
    \A k \in SingleRowGroups :
        (\A i \in 1..Len(MainAlterations) :
             SinglePatternRuleMatches(i, history[k]) => MainAlterations[i].tx_hash = None)
            => history[k].emitted = history[k].transaction_list

\* C5 as amended: a group of one row is written to the output as that row,
\* unchanged, unless a single-pattern alteration matches it whose pin is
\* absent or is the group's hash; the first such alteration, pinned or not,
\* is applied to the row, and what its actions return is written instead.
C5_SingleRowUnchangedUnlessRule ==
    \A k \in SingleRowGroups :
        LET h == history[k]
            matching == {i \in 1..Len(MainAlterations) : SinglePatternRuleMatches(i, h)}
        IN  IF matching = {}
            THEN h.kind = "passed" /\ h.emitted = h.transaction_list
            ELSE /\ h.kind \in {"altered", "raised"}
                 /\ h.alteration \in matching
                 /\ \A i \in matching : h.alteration <= i
                 /\ h.kind = "altered" =>
                        h.emitted = perform_actions_from(
                                        MainAlterations[h.alteration].actions,
                                        h.transaction_list, 1).value

\* An unpinned single-pattern alteration has rewritten a group of one row.
C5_Witness ==
    \E k \in SingleRowGroups :
        /\ history[k].kind = "altered"
        /\ MainAlterations[history[k].alteration].tx_hash = None
        /\ history[k].emitted # history[k].transaction_list
        /\ Len(output_transaction_list) > 0

RECURSIVE EmittedUpTo(_)
EmittedUpTo(k) == IF k = 0 THEN <<>> ELSE EmittedUpTo(k - 1) \o history[k].emitted

\* Some alteration satisfies the three conditions of the resolver for the group.
SomeRuleMatches(h) ==
    \E i \in 1..Len(MainAlterations) :
        /\ MainAlterations[i].tx_hash = None \/ MainAlterations[i].tx_hash = h.transaction_hash
        /\ Len(MainAlterations[i].tx_patterns) = Len(h.transaction_list)
        /\ all_transactions_in_tx_pattern_list(h.transaction_list,
                                               MainAlterations[i].tx_patterns)

GroupSizes == {Len(history[k].transaction_list) : k \in 1..Len(history)}

\* C6: the output holds only rows of groups of one row and rows returned by
\* the actions of an alteration that matched the group; a group of more than
\* one row that no alteration matches adds nothing to the output and adds
\* one to the unmatched count of its size.
C6_OutputOnlyFromSingleOrMatchedGroups ==
    /\ output_transaction_list = EmittedUpTo(Len(history))
    /\ \A k \in 1..Len(history) :
           LET h == history[k]
           IN  /\ (Len(h.transaction_list) > 1 /\ ~SomeRuleMatches(h)) =>
                      h.kind = "no_match" /\ h.emitted = <<>>
               /\ h.emitted # <<>> =>
                      \/ /\ Len(h.transaction_list) = 1
                         /\ ~SomeRuleMatches(h)
                         /\ h.emitted = h.transaction_list
                      \/ /\ SomeRuleMatches(h)
                         /\ h.alteration # 0
                         /\ h.emitted = perform_actions_from(
                                            MainAlterations[h.alteration].actions,
                                            h.transaction_list, 1).value
    /\ \A n \in GroupSizes \cup DOMAIN no_match_transaction_hash_count_dict :
           count_of(no_match_transaction_hash_count_dict, n) =
               Cardinality({k \in 1..Len(history) :
                               /\ Len(history[k].transaction_list) = n
                               /\ n > 1
                               /\ ~SomeRuleMatches(history[k])})

\* A group of two rows without alteration was dropped and counted, after a
\* group that was written.
C6_Witness ==
    /\ Len(history) = 2
    /\ history[1].emitted # <<>>
    /\ history[2].kind = "no_match"
    /\ Len(history[2].transaction_list) = 2
    /\ output_transaction_list = history[1].emitted
    /\ count_of(no_match_transaction_hash_count_dict, 2) = 1

\* The actions of the alteration found for the group of iteration k raise.
ActionsRaise(k) ==
    LET h == history[k]
        alteration == match_transaction_list_to_alteration(
                          main_alterations_mapping, h.transaction_hash, h.transaction_list)
    IN  /\ alteration # 0
        /\ perform_actions_from(MainAlterations[alteration].actions,
                                h.transaction_list, 1).err # NoError

\* C15: when the actions of a group's alteration raise, main() is left at
\* that iteration: the group is recorded as raised, not as skipped, written
\* or without alteration, it adds nothing to the output, it is the last group
\* processed, and from then on no step is taken, so that no later group is
\* resolved and the output is never appended to again.
C15_FailFast ==
    /\ [](\A k \in 1..Len(history) :
             ActionsRaise(k) =>
                 /\ history[k].kind = "raised"
                 /\ history[k].emitted = <<>>
                 /\ k = Len(history)
                 /\ group_index = k
                 /\ pc = "raised"
                 /\ output_transaction_list = EmittedUpTo(k - 1))
    /\ [](pc = "raised" => ActionsRaise(Len(history)))
    /\ [][pc # "raised"]_vars

\* The second of three groups raised after the first was written; the third
\* is left unprocessed.
C15_Witness ==
    /\ pc = "raised"
    /\ Len(history) = 2
    /\ history[1].emitted # <<>>
    /\ output_transaction_list = history[1].emitted
    /\ Len(separated_transaction_list_of_lists) = 3
    /\ group_index = 2

\* What action i of the pipeline returns when the pipeline starts from the group.
RECURSIVE StageOutput(_, _, _)
StageOutput(actions, group, i) ==
    IF i = 0 THEN Returned(group)
    ELSE perform_on_transaction_list(actions[i], StageOutput(actions, group, i - 1).value)

\* The rows the dict holds now for the group of iteration k.
GroupNow(k) == separated_transaction_list_of_lists[k].transaction_list

\* C16: for a group an alteration matched, the actions run in list order,
\* the first on the rows of the group and each next one on what the one
\* before returned; no action of a pipeline that completed raised; what is
\* appended to the output is what the last action returned; and the rows of
\* the group in the dict are afterwards what they were before.
C16_ActionsRunInOrderOnACopy ==
    /\ output_transaction_list = EmittedUpTo(Len(history))
    /\ \A k \in 1..Len(history) :
           LET h == history[k]
               actions == MainAlterations[h.alteration].actions
           IN  /\ GroupNow(k) = h.transaction_list
               /\ h.kind = "altered" =>
                      /\ \A i \in 0..Len(actions) :
                             StageOutput(actions, h.transaction_list, i).err = NoError
                      /\ h.emitted = StageOutput(actions, h.transaction_list, Len(actions)).value
               /\ h.kind = "raised" =>
                      \E i \in 1..Len(actions) :
                          /\ StageOutput(actions, h.transaction_list, i).err = h.err
                          /\ h.err # NoError
                          /\ \A j \in 0..(i - 1) :
                                 StageOutput(actions, h.transaction_list, j).err = NoError

\* A pipeline of three actions wrote two rows that differ from the rows of
\* the group, which the dict still holds as they were.
C16_Witness ==
    \E k \in 1..Len(history) :
        /\ history[k].kind = "altered"
        /\ Len(MainAlterations[history[k].alteration].actions) = 3
        /\ Len(history[k].emitted) = 2
        /\ history[k].emitted[1].buy_currency = "WBTC"
        /\ history[k].emitted[1].transaction_type = "Staking"
        /\ GroupNow(k)[1].buy_currency = "BTC"
        /\ GroupNow(k)[1].transaction_type = "Deposit"
        /\ output_transaction_list = EmittedUpTo(k)

CountedSizes ==
    DOMAIN input_transaction_hash_count_dict
        \cup DOMAIN no_match_transaction_hash_count_dict
        \cup DOMAIN output_transaction_hash_count_dict

\* For every group size the groups seen are the groups without alteration
\* plus the groups counted as written, and no group of one row was ever
\* counted as being without alteration.
Tally ==
    /\ \A n \in CountedSizes \cup GroupSizes :
           /\ count_of(input_transaction_hash_count_dict, n) =
                  count_of(no_match_transaction_hash_count_dict, n)
                      + count_of(output_transaction_hash_count_dict, n)
           /\ count_of(input_transaction_hash_count_dict, n) =
                  Cardinality({k \in 1..Len(history) : Len(history[k].transaction_list) = n})
    /\ count_of(no_match_transaction_hash_count_dict, 1) = 0
    /\ 1 \notin DOMAIN no_match_transaction_hash_count_dict

\* The counts of every size but n are what they were.
OtherSizesKept(count_dict_before, count_dict_after, n) ==
    \A m \in (DOMAIN count_dict_before \cup DOMAIN count_dict_after) \ {n} :
        count_of(count_dict_after, m) = count_of(count_dict_before, m)

AddsOne(count_dict_before, count_dict_after, n) ==
    /\ count_of(count_dict_after, n) = count_of(count_dict_before, n) + 1
    /\ OtherSizesKept(count_dict_before, count_dict_after, n)

\* An iteration of the main loop adds one to the input count of the group's
\* size and one to exactly one of the two other counts of that size.
TallyStep ==
    group_index' = group_index + 1 =>
        LET n == Len(separated_transaction_list_of_lists[group_index + 1].transaction_list)
        IN  /\ AddsOne(input_transaction_hash_count_dict,
                       input_transaction_hash_count_dict', n)
            /\ \/ /\ AddsOne(output_transaction_hash_count_dict,
                             output_transaction_hash_count_dict', n)
                  /\ no_match_transaction_hash_count_dict' =
                         no_match_transaction_hash_count_dict
               \/ /\ AddsOne(no_match_transaction_hash_count_dict,
                             no_match_transaction_hash_count_dict', n)
                  /\ output_transaction_hash_count_dict' =
                         output_transaction_hash_count_dict
                  /\ n # 1

\* C18: after each group processed, for every group size k
\* input[k] = unmatched[k] + output[k]; each processed group adds one to
\* input[size] and to exactly one of unmatched[size] and output[size], and
\* unmatched[1] is never incremented.  (The equation also holds when the
\* actions of the group raise: both counts were incremented before they ran.)
C18_TallyInvariant == [](Tally) /\ [][TallyStep]_vars

\* A group of one row was written and a group of two rows was left without
\* alteration: input[1] = 0 + 1 and input[2] = 1 + 0.
C18_Witness ==
    /\ pc = "loop"
    /\ Len(history) = 2
    /\ count_of(input_transaction_hash_count_dict, 1) = 1
    /\ count_of(output_transaction_hash_count_dict, 1) = 1
    /\ count_of(input_transaction_hash_count_dict, 2) = 1
    /\ count_of(no_match_transaction_hash_count_dict, 2) = 1
    /\ count_of(output_transaction_hash_count_dict, 2) = 0

\* The csv row a record of main() was read from.
RowOf(transaction) == CHOOSE r \in Rows : create_from_transaction_dict(r) = transaction

\* The characters of an ExchangeId before its first '-'.
RECURSIVE UpToFirstDash(_, _)
UpToFirstDash(s, i) ==
    IF i > Len(s) \/ s[i] = "-" THEN "" ELSE s[i] \o UpToFirstDash(s, i + 1)

FirstSegment(transaction) == UpToFirstDash(RowOf(transaction).ExchangeId, 1)

\* The rows already put into the dict.
Separated == SubSeq(main_transaction_list, 1, row_index)

\* The rows of the input whose first segment is h, in input order.
RowsOfSegment(h) ==
    LET InSegment(transaction) == FirstSegment(transaction) = h
    IN  SelectSeq(Separated, InSegment)

FirstAppearance(h) ==
    CHOOSE i \in 1..Len(Separated) :
        /\ FirstSegment(Separated[i]) = h
        /\ \A j \in 1..(i - 1) : FirstSegment(Separated[j]) # h

\* C19: grouping partitions the input by the first '-'-separated segment of
\* the ExchangeId: the groups have distinct hashes, which are the first
\* segments that occur; a group holds exactly the rows of its segment,
\* whatever their suffixes, in input order; the groups are in order of first
\* appearance of their hash, and they are processed in that order.
C19_GroupingByFirstSegment ==
    LET d == separated_transaction_list_of_lists
    IN  /\ \A k, l \in 1..Len(d) : k # l => d[k].transaction_hash # d[l].transaction_hash
        /\ dict_keys(d) = {FirstSegment(Separated[i]) : i \in 1..Len(Separated)}
        /\ \A k \in 1..Len(d) : d[k].transaction_list = RowsOfSegment(d[k].transaction_hash)
        /\ \A k, l \in 1..Len(d) :
               k < l => FirstAppearance(d[k].transaction_hash)
                            < FirstAppearance(d[l].transaction_hash)
        /\ group_index = Len(history)
        /\ \A k \in 1..Len(history) :
               /\ history[k].transaction_hash = d[k].transaction_hash
               /\ history[k].transaction_list = d[k].transaction_list

\* The rows a, b, a-1 were read: a and a-1 are one group although their
\* suffixes differ and b lies between them, and that group was processed
\* before the group of b.
C19_Witness ==
    /\ pc = "exit"
    /\ Len(main_transaction_list) = 3
    /\ Len(history) = 2
    /\ history[1].transaction_list =
           <<main_transaction_list[1], main_transaction_list[3]>>
    /\ main_transaction_list[1].exchange_id.transaction_suffix
           # main_transaction_list[3].exchange_id.transaction_suffix
    /\ history[2].transaction_list = <<main_transaction_list[2]>>

\* What iteration k recorded is what the body of the loop does with the
\* group's hash and rows under the mapping, whatever was processed before.
OutcomeOfGroupAlone(k) ==
    LET h == history[k]
        outcome == group_outcome(main_alterations_mapping, h.transaction_hash,
                                 h.transaction_list)
    IN  /\ h.alteration = match_transaction_list_to_alteration(
                              main_alterations_mapping, h.transaction_hash,
                              h.transaction_list)
        /\ h.kind = outcome.kind
        /\ h.err = outcome.err
        /\ h.emitted = outcome.emitted

====
